---- MODULE Spec2Model ----
(***************************************************************************)
(* Model of the active-learning loop for morphological segmentation of     *)
(* ufcompling/u2u_morphseg: the boundary-label codec and the selector of   *)
(* scripts/crf_al.py, and the training cycle of public/py/crf_bridge.py.   *)
(*                                                                         *)
(* Strings are sequences of one-character strings.  Python exceptions are  *)
(* values: an operation that can raise returns [exc |-> name, val |-> v],  *)
(* with exc = "none" when it returns normally.                             *)
(***************************************************************************)
EXTENDS Integers, Sequences, FiniteSets, TLC

VARIABLES
    word,       \* codec: the surface word (Word)
    gold,       \* codec: the gold MorphList of the word
    pred,       \* codec: the tag sequence handed to the decoder, sentinels included
    morphs,     \* codec: the MorphList reconstruct_predictions returned
    raised,     \* codec: the exception the decoder raised, "none" if it returned
    cpc,        \* codec: position of the codec pipeline
    pool,               \* selector: zip(words, morphs, confscores)
    select_interval,    \* selector: args.select_interval
    conf_sorted_data,   \* selector: what sort_by_confidence returned
    increment_data,     \* selector: the increment of split_increment_residual
    residual_data,      \* selector: the residual of split_increment_residual
    spc,                \* selector: position of the selection
    vfs,        \* bridge: the files of workDir, name -> lines
    config,     \* bridge: the decoded config of the running call
    data,       \* bridge: the DataDict process_data returned
    payload,    \* bridge: what the last call returned
    calls,      \* bridge: calls of run_training_cycle made so far
    bpc,        \* bridge: position inside run_training_cycle or run_inference
    inference,  \* bridge: what the running call of run_inference returned
    touched,    \* bridge: the files of workDir the running call has written
    select_size,    \* main: args.select_size of the running cycle
    exit_exc,       \* main: the exception that ended the last run, or "none"
    main_runs,      \* main: runs of main made so far
    apc,            \* main: position inside main
    gold_word,  \* evaluator: the gold MorphLists of the test words
    pred_word,  \* evaluator: the predicted MorphLists of the test words
    scores,     \* evaluator: what calculate_metrics returned, word by word
    average,    \* evaluator: what evaluate_predictions returned
    reported,   \* evaluator: the metrics run_training_cycle puts in its payload
    eval_exc,   \* evaluator: the exception the evaluation raised, or "none"
    epc,        \* evaluator: position inside evaluate_predictions
    marginals,  \* scoring: the marginals of the word, position by position
    confscore,  \* scoring: what get_confidence_scores returned for the word
    kpc,        \* scoring: position of the scoring
    loaded,     \* file format: what load_file_data returned
    fpc,        \* file format: position of the write and read back
    delta,          \* features: args.delta, the context window
    position,       \* features: the index i handed to get_char_features
    char_dict,      \* features: what get_char_features returned
    word_features,  \* features: what get_word_features or get_features returned
    gpc             \* features: position of the feature construction

codecVars == <<word, gold, pred, morphs, raised, cpc>>
selectorVars == <<pool, select_interval, conf_sorted_data, increment_data,
                  residual_data, spc>>
bridgeVars == <<vfs, config, data, payload, calls, bpc, inference, touched>>
mainVars == <<select_size, exit_exc, main_runs, apc>>
evalVars == <<gold_word, pred_word, scores, average, reported, eval_exc, epc>>
scoreVars == <<marginals, confscore, kpc>>
formatVars == <<loaded, fpc>>
featVars == <<delta, position, char_dict, word_features, gpc>>
unitVars == <<evalVars, scoreVars, formatVars, featVars>>
vars == <<codecVars, selectorVars, bridgeVars, mainVars, unitVars>>

(***************************************************************************)
(* Bounds.                                                                 *)
(***************************************************************************)
MaxWordLen == 4
Alphabet == {"a", "b"}
MaxPool == 3        \* records in a pool
MaxConf == 1        \* confidence levels are 0..MaxConf
MaxIncrement == 3   \* requested increment sizes are 0..MaxIncrement
MaxCalls == 2       \* calls of run_training_cycle on one workDir
MaxInterval == 2    \* --select_interval of a trajectory is 1..MaxInterval
MaxSelectSize == 3  \* --select_size of a run is 0..MaxSelectSize
MaxRuns == 2        \* runs of main on one data directory

(***************************************************************************)
(* Python built-ins used by the source.                                    *)
(***************************************************************************)
Min(a, b) == IF a <= b THEN a ELSE b
Max(a, b) == IF a >= b THEN a ELSE b

\* Python's normalisation of one slice index against a length n.
SliceIndex(i, n) == IF i < 0 THEN Max(n + i, 0) ELSE Min(i, n)

\* s[a:b]: never raises, clamps both ends.
PySlice(s, a, b) ==
    LET lo == SliceIndex(a, Len(s))
        hi == SliceIndex(b, Len(s))
    IN  IF lo >= hi THEN <<>> ELSE SubSeq(s, lo + 1, hi)

\* s[a:]
PySliceFrom(s, a) == PySlice(s, a, Len(s))

\* ''.join(parts) / the concatenation of a list of lists.
RECURSIVE Join(_)
Join(parts) ==
    IF parts = <<>> THEN <<>> ELSE Head(parts) \o Join(Tail(parts))

\* s.count(c)
RECURSIVE Count(_, _)
Count(s, c) ==
    IF s = <<>> THEN 0
    ELSE (IF Head(s) = c THEN 1 ELSE 0) + Count(Tail(s), c)

\* s.split(sep) for a one-character separator: n separators give n+1
\* fragments, empty fragments kept.
RECURSIVE SplitFrom(_, _, _)
SplitFrom(s, sep, cur) ==
    IF s = <<>> THEN <<cur>>
    ELSE IF Head(s) = sep THEN <<cur>> \o SplitFrom(Tail(s), sep, <<>>)
    ELSE SplitFrom(Tail(s), sep, Append(cur, Head(s)))

Split(s, sep) == SplitFrom(s, sep, <<>>)

NonEmptySeq(t) == t # <<>>

(***************************************************************************)
(* Boundary-label codec (scripts/crf_al.py).                               *)
(***************************************************************************)
BMES == {"B", "M", "E", "S"}

\* The labels of one morph: the body of the loop of get_bmes_labels.  A
\* morph of any length other than 1 takes the else branch, range(len-2)
\* being empty for lengths below 3.
MorphLabelsOneMore(morph) ==
    IF Len(morph) = 1 THEN <<"S">>
    ELSE <<"B">> \o [i \in 1..Max(Len(morph) - 1, 0) |-> "M"] \o <<"E">>

MorphLabels(morph) ==
    IF Len(morph) = 1 THEN <<"S">>
    ELSE <<"B">> \o [i \in 1..Max(Len(morph) - 2, 0) |-> "M"] \o <<"E">>

RECURSIVE get_bmes_labels(_)
get_bmes_labels(ms) ==
    IF ms = <<>> THEN <<>>
    ELSE MorphLabels(Head(ms)) \o get_bmes_labels(Tail(ms))

\* One run resolved into its tokens: the body of the loop over labels.
ResolveFragmentDropsEmpty(frag) ==
    IF frag = <<>> THEN <<>> ELSE << frag \o <<"E">> >>

ResolveFragment(frag) ==
    IF frag = <<>> THEN << <<"S">> >> ELSE << frag \o <<"E">> >>

\* The loop over tok.split('S').
RECURSIVE ResolveFragments(_)
ResolveFragments(frags) ==
    IF frags = <<>> THEN <<>>
    ELSE ResolveFragment(Head(frags)) \o ResolveFragments(Tail(frags))

ResolveRun(tok) ==
    IF Count(tok, "S") = 0 THEN << tok \o <<"E">> >>
    ELSE IF Count(tok, "S") = Len(tok) THEN [i \in 1..Count(tok, "S") |-> <<"S">>]
    ELSE ResolveFragments(Split(tok, "S"))

\* The runs: the inner tags split on E, empty fragments dropped.
Runs(p) == SelectSeq(Split(PySlice(p, 1, -1), "E"), NonEmptySeq)

\* new_labels of reconstruct_predictions.
RECURSIVE ResolveRuns(_)
ResolveRuns(runs) ==
    IF runs = <<>> THEN <<>>
    ELSE ResolveRun(Head(runs)) \o ResolveRuns(Tail(runs))

NewLabels(p) == ResolveRuns(Runs(p))

\* word[pre:pre+tok_length]: a slice, which cannot raise.
WordSliceIndexed(w, pre, len) ==
    IF pre + len > Len(w) THEN [exc |-> "IndexError", val |-> <<>>]
    ELSE [exc |-> "none", val |-> PySlice(w, pre, pre + len)]

WordSlice(w, pre, len) == [exc |-> "none", val |-> PySlice(w, pre, pre + len)]

\* The morph that token i (1-based here) of new_labels cuts out of the word.
TokenMorph(w, nl, i) ==
    WordSlice(w, Len(Join(SubSeq(nl, 1, i - 1))), Len(nl[i]))

\* reconstruct_predictions for one (pred, word) pair of the zip.
reconstruct_predictions(p, w) ==
    LET nl == NewLabels(p)
        cut == [i \in 1..Len(nl) |-> TokenMorph(w, nl, i)]
    IN  IF \E i \in 1..Len(nl) : cut[i].exc # "none"
        THEN [exc |-> "IndexError", val |-> <<>>]
        ELSE [exc |-> "none", val |-> [i \in 1..Len(nl) |-> cut[i].val]]

\* list.remove(x): the list without the first x, if it holds one.
RECURSIVE RemoveFirst(_, _)
RemoveFirst(list, x) ==
    IF list = <<>> THEN <<>>
    ELSE IF Head(list) = x THEN Tail(list)
    ELSE <<Head(list)>> \o RemoveFirst(Tail(list), x)

\* labels of crf_random.reconstruct: the inner tags split on E, the first
\* empty fragment removed.
RandomRuns(p) == RemoveFirst(Split(PySlice(p, 1, -1), "E"), <<>>)

\* crf_random.reconstruct for one (pred, word) pair: the same resolution of
\* the runs and the same slices as reconstruct_predictions.
reconstruct(p, w) ==
    LET nl == ResolveRuns(RandomRuns(p))
        cut == [i \in 1..Len(nl) |-> TokenMorph(w, nl, i)]
    IN  IF \E i \in 1..Len(nl) : cut[i].exc # "none"
        THEN [exc |-> "IndexError", val |-> <<>>]
        ELSE [exc |-> "none", val |-> [i \in 1..Len(nl) |-> cut[i].val]]

\* The loop of _labels_to_boundary_indices (public/py/crf_bridge.py) from
\* index i (0-based) of the inner labels on.
RECURSIVE BoundariesFrom(_, _, _)
BoundariesFrom(inner, w, i) ==
    IF i >= Len(inner) THEN <<>>
    ELSE (IF inner[i + 1] \in {"E", "S"} /\ i < Len(w) - 1 THEN <<i>> ELSE <<>>)
         \o BoundariesFrom(inner, w, i + 1)

_labels_to_boundary_indices(w, pred_labels) ==
    BoundariesFrom(PySlice(pred_labels, 1, -1), w, 0)

(***************************************************************************)
(* Inputs of the codec.                                                    *)
(***************************************************************************)
Words == UNION {[1..n -> Alphabet] : n \in 1..MaxWordLen}

\* The morph list that cuts w after each position of cuts.
RECURSIVE Segment(_, _, _)
Segment(w, cuts, from) ==
    LET later == {c \in cuts : c >= from}
    IN  IF later = {} THEN << SubSeq(w, from, Len(w)) >>
        ELSE LET c == CHOOSE x \in later : \A y \in later : x <= y
             IN  << SubSeq(w, from, c) >> \o Segment(w, cuts, c + 1)

\* Every non-empty list of non-empty morphs whose concatenation is w.
MorphLists(w) == {Segment(w, cuts, 1) : cuts \in SUBSET (1..(Len(w) - 1))}

\* Every tag sequence a model can predict for w, sentinels included.
TagSeqs(w) == {<<"[">> \o t \o <<"]">> : t \in [1..Len(w) -> BMES]}

(***************************************************************************)
(* The codec pipeline: a word is labelled from its gold morphs             *)
(* (get_word_features) or tagged by the model (crf.predict), then decoded. *)
(***************************************************************************)
CodecIdle ==
    /\ word = <<>> /\ gold = <<>> /\ pred = <<>> /\ morphs = <<>>
    /\ raised = "none" /\ cpc = "off"

SelectorIdle ==
    /\ pool = <<>> /\ select_interval = 0 /\ conf_sorted_data = <<>>
    /\ increment_data = <<>> /\ residual_data = <<>> /\ spc = "off"

NoFiles == [name \in {} |-> <<>>]

EmptyDataset == [words |-> <<>>, morphs |-> <<>>, bmes |-> <<>>]

NoData == [train |-> EmptyDataset, test |-> EmptyDataset, select |-> EmptyDataset]

NoConfig == [trainTgt |-> <<>>, testTgt |-> <<>>, selectTgt |-> <<>>,
             selectSrc |-> <<>>, incrementSize |-> 0, selectSize |-> 0]

NoPayload == [error |-> "pending", metrics |-> "zero", incrementWords |-> <<>>,
              residualCount |-> 0, incrementContent |-> <<>>,
              residualContent |-> <<>>]

NoInference == [error |-> "pending", predictions |-> <<>>,
                predictionsContent |-> <<>>, totalWords |-> 0]

BridgeIdle ==
    /\ vfs = NoFiles /\ config = NoConfig /\ data = NoData
    /\ payload = NoPayload /\ calls = 0 /\ bpc = "off"
    /\ inference = NoInference /\ touched = {}

MainIdle ==
    /\ select_size = 0 /\ exit_exc = "none" /\ main_runs = 0 /\ apc = "off"

NoScores == <<0, 0, 0>>

EvalIdle ==
    /\ gold_word = <<>> /\ pred_word = <<>> /\ scores = <<>>
    /\ average = NoScores /\ reported = NoScores /\ eval_exc = "none"
    /\ epc = "off"

ScoreIdle == marginals = <<>> /\ confscore = <<0, 1>> /\ kpc = "off"

FormatIdle == loaded = EmptyDataset /\ fpc = "off"

NoFeatures == [features |-> <<>>, labels |-> <<>>, word_chars |-> <<>>]

FeatIdle ==
    /\ delta = 0 /\ position = 0 /\ char_dict = <<>>
    /\ word_features = NoFeatures /\ gpc = "off"

UnitIdle == EvalIdle /\ ScoreIdle /\ FormatIdle /\ FeatIdle

CodecInit ==
    /\ SelectorIdle
    /\ BridgeIdle
    /\ MainIdle
    /\ word \in Words
    /\ gold \in MorphLists(word)
    /\ pred = <<>>
    /\ morphs = <<>>
    /\ raised = "none"
    /\ cpc = "start"
    /\ UnitIdle

\* The gold label sequence: '[' + bmes + ']'.
EncodeGold ==
    /\ cpc = "start"
    /\ pred' = <<"[">> \o get_bmes_labels(gold) \o <<"]">>
    /\ cpc' = "encoded"
    /\ UNCHANGED <<word, gold, morphs, raised, selectorVars, bridgeVars, mainVars>>
    /\ UNCHANGED unitVars

\* The model's prediction: any tag over {B,M,E,S} at every position.
Predict ==
    /\ cpc = "start"
    /\ pred' \in TagSeqs(word)
    /\ cpc' = "predicted"
    /\ UNCHANGED <<word, gold, morphs, raised, selectorVars, bridgeVars, mainVars>>
    /\ UNCHANGED unitVars

Reconstruct ==
    /\ cpc \in {"encoded", "predicted"}
    /\ LET r == reconstruct_predictions(pred, word)
       IN  /\ morphs' = r.val
           /\ raised' = r.exc
    /\ cpc' = IF cpc = "encoded" THEN "decoded_gold" ELSE "decoded_pred"
    /\ UNCHANGED <<word, gold, pred, selectorVars, bridgeVars, mainVars>>
    /\ UNCHANGED unitVars

CodecNext == EncodeGold \/ Predict \/ Reconstruct

SpecCodec == CodecInit /\ [][CodecNext]_vars

(***************************************************************************)
(* Properties of the codec.                                                *)
(***************************************************************************)
Inner(p) == PySlice(p, 1, -1)

\* Number of characters of the morphs before morph k.
Offset(ms, k) == Len(Join(SubSeq(ms, 1, k - 1)))

IsSubstring(m, w) ==
    \E a \in 0..Len(w) : \E b \in a..Len(w) : PySlice(w, a, b) = m

\* C1: decoding the sentinel-wrapped labels of a list of non-empty morphs,
\* for the word the morphs concatenate to, returns exactly that list.
C1_RoundTrip ==
    cpc = "decoded_gold" => raised = "none" /\ morphs = gold

\* A round trip through a run that mixes S with a longer morph.
C1_Witness ==
    /\ cpc = "decoded_gold"
    /\ Len(gold) = 3
    /\ Len(gold[1]) = 1 /\ Len(gold[2]) = 2 /\ Len(gold[3]) = 1
    /\ morphs = gold

\* C2: for every tag sequence of length len(word) over {B,M,E,S}, the
\* decoded morphs concatenate to the whole word (their lengths sum to
\* len(word)).
C2_LengthInvariant ==
    cpc = "decoded_pred" =>
        /\ Join(morphs) = word
        /\ Len(Join(morphs)) = Len(word)

\* C3: the decoder returns a morph list, and does not raise, for every word
\* and every sentinel-wrapped tag sequence over {B,M,E,S}.
C3_NeverRaises ==
    cpc \in {"decoded_gold", "decoded_pred"} =>
        /\ raised = "none"
        /\ \A i \in 1..Len(morphs) : IsSubstring(morphs[i], word)

\* Decoded: leading E, consecutive E, B at the end.
C3_Witness ==
    /\ cpc = "decoded_pred"
    /\ Inner(pred) = <<"E", "E", "S", "B">>
    /\ raised = "none"

\* C4: the decoded morph list of a non-empty word is non-empty and each of
\* its morphs is a non-empty substring of the word.
C4_ValidMorphList ==
    cpc = "decoded_pred" =>
        /\ Len(morphs) >= 1
        /\ \A i \in 1..Len(morphs) :
              morphs[i] # <<>> /\ IsSubstring(morphs[i], word)

\* C23: the tokens reconstruct_predictions builds from the runs
\* (new_labels) do not overlap and their lengths sum to len(word), for
\* every tag sequence of length len(word) over {B,M,E,S}: token i covers the
\* characters from the end of token i-1 on, and the last one ends at the
\* last character of the word.
C23_TokensCoverWord ==
    cpc = "decoded_pred" => Len(Join(NewLabels(pred))) = Len(word)

\* C29: crf_random.reconstruct and crf_al.reconstruct_predictions return
\* the same morph list for every word and every sentinel-wrapped tag
\* sequence over {B,M,E,S}, well-formed or not.
C29_DecoderEquivalence ==
    cpc \in {"decoded_gold", "decoded_pred"} =>
        LET r == reconstruct(pred, word)
        IN  r.exc = raised /\ r.val = morphs

\* The index of the last character of every morph of ms but the final one.
MorphEnds(ms) == [k \in 1..(Len(ms) - 1) |-> Offset(ms, k + 1) - 1]

\* C30: for every word and every predicted tag sequence of length
\* len(word)+2, the indices _labels_to_boundary_indices returns are the
\* indices of the last character of every morph but the final one of the
\* morph list reconstruct_predictions decodes from the same tags.
C30_BoundaryIndices ==
    cpc = "decoded_pred" =>
        _labels_to_boundary_indices(word, pred) = MorphEnds(morphs)

\* C5: the labels of a list of non-empty morphs are, morph by morph, S for a
\* morph of length 1 and B, (length-2) times M, E for a longer one; the
\* label string has the length of the word and is over {B,M,E,S}; ['a']
\* gives S and ['un','happy'] gives BEBMMME.
C5_Labels ==
    /\ cpc = "encoded" =>
          LET ls == Inner(pred)
          IN  /\ Len(ls) = Len(word)
              /\ \A i \in 1..Len(ls) : ls[i] \in BMES
              /\ \A k \in 1..Len(gold) :
                    LET o == Offset(gold, k)
                        n == Len(gold[k])
                    IN  IF n = 1 THEN ls[o + 1] = "S"
                        ELSE /\ ls[o + 1] = "B"
                             /\ ls[o + n] = "E"
                             /\ \A j \in 2..(n - 1) : ls[o + j] = "M"
    /\ get_bmes_labels(<< <<"a">> >>) = <<"S">>
    /\ get_bmes_labels(<< <<"u", "n">>, <<"h", "a", "p", "p", "y">> >>)
          = <<"B", "E", "B", "M", "M", "M", "E">>

\* Labelled: a single, a two-character and a longer morph in one word.
C5_Witness ==
    /\ cpc = "encoded"
    /\ Len(gold) = 2
    /\ Len(gold[1]) = 1 /\ Len(gold[2]) = 3
    /\ Inner(pred) = <<"S", "B", "M", "E">>

(***************************************************************************)
(* Active-learning selector (scripts/crf_al.py).  A ConfidenceData record  *)
(* is the tuple <<word, morphs, confidence>>.                              *)
(***************************************************************************)
Conf(rec) == rec[3]

\* The place sorted() gives x among the already sorted s: after every
\* element whose key is not greater, so that equal keys keep their order.
RECURSIVE InsertByKeyBeforeEqual(_, _)
InsertByKeyBeforeEqual(x, s) ==
    IF s = <<>> THEN <<x>>
    ELSE IF Conf(Head(s)) < Conf(x)
         THEN <<Head(s)>> \o InsertByKeyBeforeEqual(x, Tail(s))
         ELSE <<x>> \o s

RECURSIVE InsertByKey(_, _)
InsertByKey(x, s) ==
    IF s = <<>> THEN <<x>>
    ELSE IF Conf(Head(s)) <= Conf(x)
         THEN <<Head(s)>> \o InsertByKey(x, Tail(s))
         ELSE <<x>> \o s

\* sorted(data, key=lambda x: x[2]): ascending and stable.
RECURSIVE SortedFrom(_, _)
SortedFrom(done, rest) ==
    IF rest = <<>> THEN done
    ELSE SortedFrom(InsertByKey(Head(rest), done), Tail(rest))

\* zip(words, morphs, confscores): as long as the shortest of the three.
Zip3(ws, mss, cs) ==
    [i \in 1..Min(Len(ws), Min(Len(mss), Len(cs))) |-> <<ws[i], mss[i], cs[i]>>]

sort_by_confidence(ws, mss, cs) == SortedFrom(<<>>, Zip3(ws, mss, cs))

split_increment_residualInclusive(confidence_data, interval) ==
    [increment |-> PySlice(confidence_data, 0, interval + 1),
     residual  |-> PySliceFrom(confidence_data, interval + 1)]

split_increment_residualGap(confidence_data, interval) ==
    [increment |-> PySlice(confidence_data, 0, interval),
     residual  |-> PySliceFrom(confidence_data, interval + 1)]

split_increment_residual(confidence_data, interval) ==
    [increment |-> PySlice(confidence_data, 0, interval),
     residual  |-> PySliceFrom(confidence_data, interval)]

(***************************************************************************)
(* The selector alone, on any list of records and any interval.            *)
(***************************************************************************)
ConfLevels == 0..MaxConf

\* Two gold segmentations, of different words, are enough to tell records
\* of equal confidence apart.
SelectorMorphLists == { << <<"a">> >>, << <<"a">>, <<"b">> >> }

SelectorRecords ==
    {<<Join(ms), ms, c>> : ms \in SelectorMorphLists, c \in ConfLevels}

SelectorPools == UNION {[1..n -> SelectorRecords] : n \in 0..MaxPool}

\* Python accepts a negative or oversized slice bound.
SelectorIntervals == (0 - (MaxPool + 1))..(MaxPool + 1)

Column(confidence_data, k) == [i \in 1..Len(confidence_data) |-> confidence_data[i][k]]

SelectorInit ==
    /\ CodecIdle
    /\ BridgeIdle
    /\ MainIdle
    /\ pool \in SelectorPools
    /\ select_interval \in SelectorIntervals
    /\ conf_sorted_data = <<>>
    /\ increment_data = <<>>
    /\ residual_data = <<>>
    /\ spc = "start"
    /\ UnitIdle

SortByConfidence ==
    /\ spc = "start"
    /\ conf_sorted_data' =
          sort_by_confidence(Column(pool, 1), Column(pool, 2), Column(pool, 3))
    /\ spc' = "sorted"
    /\ UNCHANGED <<pool, select_interval, increment_data, residual_data, codecVars,
                   bridgeVars, mainVars>>
    /\ UNCHANGED unitVars

SplitIncrementResidual ==
    /\ spc = "sorted"
    /\ LET r == split_increment_residual(conf_sorted_data, select_interval)
       IN  /\ increment_data' = r.increment
           /\ residual_data' = r.residual
    /\ spc' = "split"
    /\ UNCHANGED <<pool, select_interval, conf_sorted_data, codecVars,
                   bridgeVars, mainVars>>
    /\ UNCHANGED unitVars

SelectorNext == SortByConfidence \/ SplitIncrementResidual

SpecSelector == SelectorInit /\ [][SelectorNext]_vars

(***************************************************************************)
(* Properties of the selector.                                             *)
(***************************************************************************)
Occurrences(s, x) == Cardinality({i \in 1..Len(s) : s[i] = x})

WithConf(s, c) == SelectSeq(s, LAMBDA rec : Conf(rec) = c)

\* C7: the increment and the residual are disjoint parts of the list given
\* to split_increment_residual: concatenated they are exactly that list,
\* and every pool record is in exactly one of the two as often as it is in
\* the pool.
C7_Partition ==
    spc = "split" =>
        /\ increment_data \o residual_data = conf_sorted_data
        /\ Len(increment_data) + Len(residual_data) = Len(pool)
        /\ \A rec \in SelectorRecords :
              Occurrences(increment_data, rec) + Occurrences(residual_data, rec)
                 = Occurrences(pool, rec)

\* Split in the middle, by a negative interval, with a repeated record.
C7_Witness ==
    /\ spc = "split"
    /\ Len(pool) = 3
    /\ pool[1] = pool[3]
    /\ select_interval = -1
    /\ Len(increment_data) = 2
    /\ Len(residual_data) = 1

\* C8: every increment record's confidence is at most every residual
\* record's confidence, and records of equal confidence keep their pool
\* order.
C8_LeastConfidentFirst ==
    spc = "split" =>
        /\ \A i \in 1..Len(increment_data) : \A j \in 1..Len(residual_data) :
              Conf(increment_data[i]) <= Conf(residual_data[j])
        /\ \A c \in ConfLevels :
              WithConf(increment_data \o residual_data, c) = WithConf(pool, c)

\* A tie between different records, split across increment and residual,
\* with a less confident record that came later in the pool.
C8_Witness ==
    /\ spc = "split"
    /\ Len(pool) = 3
    /\ Conf(pool[1]) = 1 /\ Conf(pool[2]) = 1 /\ Conf(pool[3]) = 0
    /\ pool[1] # pool[2]
    /\ Len(increment_data) = 2
    /\ increment_data[2] = pool[1]
    /\ residual_data = <<pool[2]>>

(***************************************************************************)
(* Word-pair files (scripts/crf_al.py).  A file is the sequence of its     *)
(* lines, every line ended by its newline; a line is its characters        *)
(* without the newline.                                                    *)
(***************************************************************************)
\* sep.join(parts)
RECURSIVE JoinWith(_, _)
JoinWith(parts, sep) ==
    IF parts = <<>> THEN <<>>
    ELSE IF Len(parts) = 1 THEN Head(parts)
    ELSE Head(parts) \o <<sep>> \o JoinWith(Tail(parts), sep)

\* ' '.join(s) for a string s: its characters, a space between each two.
RECURSIVE Spaced(_)
Spaced(s) ==
    IF Len(s) <= 1 THEN s ELSE <<Head(s), " ">> \o Spaced(Tail(s))

\* The .src line and the .tgt line save_data writes for one record.
SrcLine(w) == Spaced(w)
TgtLine(ms) == Spaced(JoinWith(ms, "!"))

\* ''.join(line.strip().split()): the line without its whitespace.
Unspaced(line) == SelectSeq(line, LAMBDA c : c # " ")

get_line_morphs(line) ==
    LET ms == Split(Unspaced(line), "!")
    IN  [word |-> Join(ms), morphs |-> ms]

\* The index of the last line of the file that holds word w: the entry of
\* the bmes dict that survives.
LastIndexOf(ws, w) ==
    CHOOSE i \in 1..Len(ws) : ws[i] = w /\ \A j \in (i + 1)..Len(ws) : ws[j] # w

\* load_file_data on the lines of an existing file.
LoadLines(lines) ==
    LET ws == [i \in 1..Len(lines) |-> get_line_morphs(lines[i]).word]
        mss == [i \in 1..Len(lines) |-> get_line_morphs(lines[i]).morphs]
    IN  [words |-> ws,
         morphs |-> mss,
         bmes |-> [w \in {ws[i] : i \in 1..Len(ws)} |->
                      get_bmes_labels(mss[LastIndexOf(ws, w)])]]

\* load_file_data(path); usePath is false when the caller passes None.
load_file_data(files, usePath, path) ==
    IF ~usePath \/ path \notin DOMAIN files THEN EmptyDataset
    ELSE LoadLines(files[path])

process_data(files, train_path, test_path, useSelect, select_path) ==
    [train |-> load_file_data(files, TRUE, train_path),
     test |-> load_file_data(files, TRUE, test_path),
     select |-> load_file_data(files, useSelect, select_path)]

\* open(path, 'w').write(content)
WriteFile(files, path, content) ==
    [name \in DOMAIN files \cup {path} |->
        IF name = path THEN content ELSE files[name]]

\* save_data: zip(*confidence_data) of an empty list cannot be unpacked into
\* three names, so an empty list raises before either file is opened.
save_data(files, confidence_data, file_name) ==
    IF confidence_data = <<>> THEN [exc |-> "ValueError", files |-> files]
    ELSE [exc |-> "none",
          files |-> WriteFile(
              WriteFile(files, file_name \o ".src",
                  [i \in 1..Len(confidence_data) |-> SrcLine(confidence_data[i][1])]),
              file_name \o ".tgt",
              [i \in 1..Len(confidence_data) |-> TgtLine(confidence_data[i][2])])]

\* get_confidence_scores divides by len(word).
ScoresRaise(ws) == \E i \in 1..Len(ws) : ws[i] = <<>>

\* The part of output_crf that runs when the pool has words, for the
\* confidence scores cs the model's marginals give: sort, split, save, save.
SelectAndSave(files, sub_datadir, select, cs, interval) ==
    LET sorted == sort_by_confidence(select.words, select.morphs, cs)
        parts == split_increment_residual(sorted, interval)
        inc == save_data(files, parts.increment, sub_datadir \o "increment")
        res == save_data(inc.files, parts.residual, sub_datadir \o "residual")
    IN  [sorted |-> sorted,
         increment |-> parts.increment,
         residual |-> parts.residual,
         exc |-> IF inc.exc # "none" THEN inc.exc ELSE res.exc,
         files |-> IF inc.exc # "none" THEN files ELSE res.files,
         written |->
            (IF inc.exc = "none"
             THEN {sub_datadir \o "increment.src", sub_datadir \o "increment.tgt"}
             ELSE {})
            \cup
            (IF inc.exc = "none" /\ res.exc = "none"
             THEN {sub_datadir \o "residual.src", sub_datadir \o "residual.tgt"}
             ELSE {})]

\* What the model tags a word with, one tag for each character: one of two
\* models, one that sees no boundary and one that sees a boundary after
\* every character.
ModelStyles == {"whole", "single"}

PredictTags(w, style) ==
    <<"[">>
    \o (IF style = "single" \/ w = <<>> THEN [i \in 1..Len(w) |-> "S"]
        ELSE get_bmes_labels(<<w>>))
    \o <<"]">>

(***************************************************************************)
(* The training cycle of the bridge (public/py/crf_bridge.py).             *)
(***************************************************************************)
TRAIN_TGT == "train.train.tgt"
TEST_TGT == "test.full.tgt"
SELECT_TGT == "select.train.tgt"
SELECT_SRC == "select.train.src"
CRF_MODEL == "crf.model"

_write_if_present(files, path, content) ==
    IF content # <<>> THEN WriteFile(files, path, content) ELSE files

_setup_vfs(files, cfg) ==
    _write_if_present(
        _write_if_present(
            _write_if_present(
                _write_if_present(files, TRAIN_TGT, cfg.trainTgt),
                TEST_TGT, cfg.testTgt),
            SELECT_TGT, cfg.selectTgt),
        SELECT_SRC, cfg.selectSrc)

\* The paths _setup_vfs opens for writing.
SetupWrites(cfg) ==
    {path \in {TRAIN_TGT, TEST_TGT, SELECT_TGT, SELECT_SRC} :
        \/ path = TRAIN_TGT /\ cfg.trainTgt # <<>>
        \/ path = TEST_TGT /\ cfg.testTgt # <<>>
        \/ path = SELECT_TGT /\ cfg.selectTgt # <<>>
        \/ path = SELECT_SRC /\ cfg.selectSrc # <<>>}

\* line.strip() is not empty
NotBlank(line) == Unspaced(line) # <<>>

_count_lines(files, path) ==
    IF path \notin DOMAIN files THEN 0
    ELSE Len(SelectSeq(files[path], NotBlank))

_read_file(files, path) ==
    IF path \notin DOMAIN files THEN <<>> ELSE files[path]

\* Cap the increment to pool size - 1; take everything when pool <= 1.
SafeIncrementUncapped(pool_size, raw_increment) == raw_increment

SafeIncrement(pool_size, raw_increment) ==
    IF pool_size > 1 THEN Min(raw_increment, pool_size - 1) ELSE pool_size

\* _parse_increment_for_annotation, reduced to the words it returns.
_parse_increment_for_annotation(files, path) ==
    IF path \notin DOMAIN files THEN [exc |-> "none", val |-> <<>>]
    ELSE LET ws == LoadLines(files[path]).words
         IN  IF ScoresRaise(ws) THEN [exc |-> "ZeroDivisionError", val |-> <<>>]
             ELSE [exc |-> "none", val |-> ws]

\* The payload of the except branch.
ErrorPayloadKeepsMetrics(exc) ==
    [error |-> exc, metrics |-> "computed", incrementWords |-> <<>>,
     residualCount |-> 0, incrementContent |-> <<>>, residualContent |-> <<>>]

ErrorPayload(exc) ==
    [error |-> exc, metrics |-> "zero", incrementWords |-> <<>>,
     residualCount |-> 0, incrementContent |-> <<>>, residualContent |-> <<>>]

\* The payloads of run_inference that carry no prediction.
InferencePayload(err) ==
    [error |-> err, predictions |-> <<>>, predictionsContent |-> <<>>,
     totalWords |-> 0]

\* ''.join(line.split()).replace('!', '')
SurfaceWord(line) == SelectSeq(Unspaced(line), LAMBDA c : c # "!")

\* run_inference for a model that predicts: the except branch is not taken.
run_inferenceWithoutModel(files, residualTgt, style) ==
    LET lines == SelectSeq(residualTgt, NotBlank)
        words == [i \in 1..Len(lines) |-> SurfaceWord(lines[i])]
        segs == [i \in 1..Len(words) |->
                    JoinWith(reconstruct_predictions(PredictTags(words[i], style),
                                                     words[i]).val, "!")]
    IN  IF lines = <<>> THEN InferencePayload("null")
        ELSE [error |-> "null",
              predictions |-> [i \in 1..Len(words) |-> <<words[i], segs[i]>>],
              predictionsContent |-> segs,
              totalWords |-> Len(words)]

run_inference(files, residualTgt, style) ==
    LET lines == SelectSeq(residualTgt, NotBlank)
        words == [i \in 1..Len(lines) |-> SurfaceWord(lines[i])]
        segs == [i \in 1..Len(words) |->
                    JoinWith(reconstruct_predictions(PredictTags(words[i], style),
                                                     words[i]).val, "!")]
    IN  IF CRF_MODEL \notin DOMAIN files THEN InferencePayload("NoTrainedModel")
        ELSE IF lines = <<>> THEN InferencePayload("null")
        ELSE [error |-> "null",
              predictions |-> [i \in 1..Len(words) |-> <<words[i], segs[i]>>],
              predictionsContent |-> segs,
              totalWords |-> Len(words)]

(***************************************************************************)
(* Inputs of the bridge.                                                   *)
(***************************************************************************)
\* Gold segmentations of the pool: a!b, ba, ab, b!a!b, a.
Lexicon ==
    << << <<"a">>, <<"b">> >>,
       << <<"b", "a">> >>,
       << <<"a", "b">> >>,
       << <<"b">>, <<"a">>, <<"b">> >>,
       << <<"a">> >> >>

PoolRecords(n) == [i \in 1..n |-> Lexicon[i]]

TgtFile(mss) == [i \in 1..Len(mss) |-> TgtLine(mss[i])]
SrcFile(mss) == [i \in 1..Len(mss) |-> SrcLine(Join(mss[i]))]

\* A pool with a blank line in it.
BlankPool == <<TgtLine(Lexicon[1]), <<>>, TgtLine(Lexicon[2])>>

TrainFiles == {TgtFile(<< << <<"b">>, <<"a", "a">> >> >>)}
TestFiles == {<<>>, TgtFile(<< << <<"a", "a">>, <<"b">> >> >>)}

\* The residualTgt of a call of run_inference: nothing, a blank line, a
\* pool, a pool with a blank line, a line that holds no character of a word.
ResidualInputs ==
    {<<>>, << <<" ">> >>, TgtFile(PoolRecords(1)), TgtFile(PoolRecords(2)),
     BlankPool, << <<"!">> >>}

\* The confidence scores of a cycle: two levels, so that the records of a
\* pool can tie or differ.
CycleConfLevels == {0, 1}

\* The configs of a call; selectSize is the cumulative size the caller
\* passes, which the bridge copies into args.select_size and reads nowhere.
Configs(size) ==
    {[trainTgt |-> tr, testTgt |-> te, selectTgt |-> TgtFile(PoolRecords(n)),
      selectSrc |-> SrcFile(PoolRecords(n)), incrementSize |-> k,
      selectSize |-> size] :
        tr \in TrainFiles, te \in TestFiles, n \in 0..MaxPool, k \in 0..MaxIncrement}
    \cup
    {[trainTgt |-> tr, testTgt |-> te, selectTgt |-> BlankPool,
      selectSrc |-> <<>>, incrementSize |-> 1, selectSize |-> size] :
        tr \in TrainFiles, te \in TestFiles}

(***************************************************************************)
(* run_training_cycle, step by step.                                       *)
(***************************************************************************)
BridgeInit ==
    /\ CodecIdle
    /\ SelectorIdle
    /\ MainIdle
    /\ vfs = NoFiles
    /\ config = NoConfig
    /\ data = NoData
    /\ payload = NoPayload
    /\ calls = 0
    /\ bpc = "idle"
    /\ inference = NoInference
    /\ touched = {}
    /\ UnitIdle

\* json.loads, _setup_vfs, the cap of the increment, process_data and the
\* two get_features calls, none of which raises on these inputs.
BeginCycle ==
    /\ bpc = "idle"
    /\ calls < MaxCalls
    /\ \E cfg \in Configs(calls) :
          LET files == _setup_vfs(vfs, cfg)
          IN  /\ config' = cfg
              /\ vfs' = files
              /\ touched' = SetupWrites(cfg)
              /\ select_interval' =
                    SafeIncrement(_count_lines(files, SELECT_TGT), cfg.incrementSize)
              /\ data' = process_data(files, TRAIN_TGT, TEST_TGT,
                                      SELECT_TGT \in DOMAIN files, SELECT_TGT)
    /\ calls' = calls + 1
    /\ payload' = NoPayload
    /\ pool' = <<>>
    /\ conf_sorted_data' = <<>>
    /\ increment_data' = <<>>
    /\ residual_data' = <<>>
    /\ bpc' = "train"
    /\ UNCHANGED <<inference, spc, codecVars, mainVars>>
    /\ UNCHANGED unitVars

\* json.loads raises on a config that is no JSON: the except branch.
BeginCycleFails ==
    /\ bpc = "idle"
    /\ calls < MaxCalls
    /\ calls' = calls + 1
    /\ payload' = ErrorPayload("JSONDecodeError")
    /\ bpc' = "done"
    /\ UNCHANGED <<vfs, config, data, inference, touched, selectorVars, codecVars,
                   mainVars>>
    /\ UNCHANGED unitVars

\* build_crf: fit, then pickle the model into workDir.
BuildCrf ==
    /\ bpc = "train"
    /\ vfs' = WriteFile(vfs, CRF_MODEL, data.train.words)
    /\ touched' = touched \cup {CRF_MODEL}
    /\ bpc' = "output"
    /\ UNCHANGED <<config, data, payload, calls, inference, selectorVars, codecVars,
                   mainVars>>
    /\ UNCHANGED unitVars

\* The sequence model is an external capability: fit can fail.
BuildCrfFails ==
    /\ bpc = "train"
    /\ payload' = ErrorPayload("CRFError")
    /\ bpc' = "done"
    /\ UNCHANGED <<vfs, config, data, calls, inference, touched, selectorVars,
                   codecVars, mainVars>>
    /\ UNCHANGED unitVars

\* output_crf with an empty pool: the selection is skipped.
OutputCrfNoPool ==
    /\ bpc = "output"
    /\ data.select.words = <<>>
    /\ bpc' = "evaluate"
    /\ UNCHANGED <<vfs, config, data, payload, calls, inference, touched,
                   selectorVars, codecVars, mainVars>>
    /\ UNCHANGED unitVars

\* output_crf with a pool: get_confidence_scores divides by zero on an
\* empty word.
OutputCrfScoresFail ==
    /\ bpc = "output"
    /\ data.select.words # <<>>
    /\ ScoresRaise(data.select.words)
    /\ payload' = ErrorPayload("ZeroDivisionError")
    /\ bpc' = "done"
    /\ UNCHANGED <<vfs, config, data, calls, inference, touched, selectorVars,
                   codecVars, mainVars>>
    /\ UNCHANGED unitVars

\* output_crf with a pool: score, sort, split and save.
OutputCrfSelect ==
    /\ bpc = "output"
    /\ data.select.words # <<>>
    /\ ~ScoresRaise(data.select.words)
    /\ \E cs \in [1..Len(data.select.words) -> CycleConfLevels] :
          LET r == SelectAndSave(vfs, "", data.select, cs, select_interval)
          IN  /\ pool' = Zip3(data.select.words, data.select.morphs, cs)
              /\ conf_sorted_data' = r.sorted
              /\ increment_data' = r.increment
              /\ residual_data' = r.residual
              /\ vfs' = r.files
              /\ touched' = touched \cup r.written
              /\ IF r.exc = "none"
                 THEN bpc' = "evaluate" /\ payload' = payload
                 ELSE bpc' = "done" /\ payload' = ErrorPayload(r.exc)
    /\ UNCHANGED <<config, data, calls, inference, select_interval, spc, codecVars,
                   mainVars>>
    /\ UNCHANGED unitVars

\* evaluate_predictions: statistics.mean of no scores raises.
EvaluateFails ==
    /\ bpc = "evaluate"
    /\ data.test.words = <<>>
    /\ payload' = ErrorPayload("StatisticsError")
    /\ bpc' = "done"
    /\ UNCHANGED <<vfs, config, data, calls, inference, touched, selectorVars,
                   codecVars, mainVars>>
    /\ UNCHANGED unitVars

\* Evaluation, then the increment and the residual read back from workDir.
FinishCycle ==
    /\ bpc = "evaluate"
    /\ data.test.words # <<>>
    /\ LET inc == _parse_increment_for_annotation(vfs, "increment.tgt")
       IN  payload' =
             IF inc.exc # "none" THEN ErrorPayload(inc.exc)
             ELSE [error |-> "null",
                   metrics |-> "computed",
                   incrementWords |-> inc.val,
                   residualCount |-> _count_lines(vfs, "residual.tgt"),
                   incrementContent |-> _read_file(vfs, "increment.tgt"),
                   residualContent |-> _read_file(vfs, "residual.tgt")]
    /\ bpc' = "done"
    /\ UNCHANGED <<vfs, config, data, calls, inference, touched, selectorVars,
                   codecVars, mainVars>>
    /\ UNCHANGED unitVars

\* run_inference, the whole call: it opens crf.model for reading only.
RunInference ==
    /\ bpc = "idle"
    /\ \E residualTgt \in ResidualInputs, style \in ModelStyles :
          inference' = run_inference(vfs, residualTgt, style)
    /\ bpc' = "inferred"
    /\ UNCHANGED <<vfs, config, data, payload, calls, touched, selectorVars,
                   codecVars, mainVars>>
    /\ UNCHANGED unitVars

\* run_inference when the model loaded from crf.model fails to predict.
RunInferenceFails ==
    /\ bpc = "idle"
    /\ CRF_MODEL \in DOMAIN vfs
    /\ inference' = InferencePayload("CRFError")
    /\ bpc' = "inferred"
    /\ UNCHANGED <<vfs, config, data, payload, calls, touched, selectorVars,
                   codecVars, mainVars>>
    /\ UNCHANGED unitVars

\* The call returns: its payload goes to the caller and its locals are
\* gone; workDir stays as the call left it.
ReturnToCaller ==
    /\ bpc \in {"done", "inferred"}
    /\ bpc' = "idle"
    /\ config' = NoConfig
    /\ data' = NoData
    /\ payload' = NoPayload
    /\ inference' = NoInference
    /\ touched' = {}
    /\ pool' = <<>>
    /\ select_interval' = 0
    /\ conf_sorted_data' = <<>>
    /\ increment_data' = <<>>
    /\ residual_data' = <<>>
    /\ UNCHANGED <<vfs, calls, spc, codecVars, mainVars>>
    /\ UNCHANGED unitVars

BridgeNext ==
    \/ BeginCycle
    \/ BeginCycleFails
    \/ BuildCrf
    \/ BuildCrfFails
    \/ OutputCrfNoPool
    \/ OutputCrfScoresFail
    \/ OutputCrfSelect
    \/ EvaluateFails
    \/ FinishCycle
    \/ RunInference
    \/ RunInferenceFails
    \/ ReturnToCaller

SpecBridge == BridgeInit /\ [][BridgeNext]_vars

(***************************************************************************)
(* Properties of the training cycle of the bridge.                         *)
(***************************************************************************)
\* The selection of the running call has been made.
Selected == bpc \in {"evaluate", "done"} /\ pool # <<>>

PoolSize == Len(data.select.words)

\* C6: in a cycle whose pool holds P > 1 records the increment has exactly
\* min(k, P-1) records, k being the requested increment size: as split off
\* the sorted pool and, when the cycle completes, as written to
\* increment.tgt and returned in incrementWords.
C6_IncrementCardinality ==
    (Selected /\ PoolSize > 1) =>
        /\ Len(increment_data) = Min(config.incrementSize, PoolSize - 1)
        /\ payload.error = "null" =>
              /\ Len(payload.incrementWords) = Min(config.incrementSize, PoolSize - 1)
              /\ Len(vfs["increment.tgt"]) = Min(config.incrementSize, PoolSize - 1)
              /\ payload.residualCount = PoolSize - Len(payload.incrementWords)

\* A completed cycle whose requested size, the whole pool, was capped.
C6_Witness ==
    /\ bpc = "done"
    /\ payload.error = "null"
    /\ PoolSize = 3
    /\ config.incrementSize = 3
    /\ Len(payload.incrementWords) = 2
    /\ payload.residualCount = 1

\* C9: when the pool holds exactly one record and increment_size is 1 the
\* cycle completes successfully (the model and the test set given), its
\* increment holds that record and its residual is empty.
C9_FinalCycle ==
    ( /\ bpc = "done"
      /\ PoolSize = 1
      /\ config.incrementSize = 1
      /\ data.train.words # <<>>
      /\ data.test.words # <<>>
      /\ payload.error # "CRFError" ) =>
        /\ payload.error = "null"
        /\ payload.incrementWords = data.select.words
        /\ payload.residualCount = 0
        /\ payload.residualContent = <<>>

\* C11: running a cycle never modifies an artifact of another state: a file
\* of workDir, once produced, is there and unchanged after every later step.
C11_Immutability ==
    [][\A name \in DOMAIN vfs : name \in DOMAIN vfs' /\ vfs'[name] = vfs[name]]_vars

\* C12: two cycles with different keys write to disjoint sets of files: a
\* file the running cycle opens for writing is no file that an earlier
\* cycle, of another selectSize, left in storage.
C12_DisjointWrites ==
    [][(touched' \ touched) \cap DOMAIN vfs = {}]_vars

\* The artifacts a cycle commits to workDir.
CycleArtifacts ==
    {CRF_MODEL, "increment.src", "increment.tgt", "residual.src", "residual.tgt"}

\* C13: a cycle that fails leaves none of its artifacts (model file,
\* increment files, residual files) in storage.
C13_NoPartialCommit ==
    (bpc = "done" /\ payload.error # "null") =>
        \A name \in CycleArtifacts : ~(name \in touched /\ name \in DOMAIN vfs)

\* C14: a cycle given a missing or empty pool (the model fitted and the test
\* set given) completes without error, skips the selection and produces no
\* pool-specific output: no increment and no residual, in workDir or in
\* the payload.
C14_EmptyPool ==
    ( /\ bpc = "done"
      /\ config.selectTgt = <<>>
      /\ data.test.words # <<>>
      /\ payload.error # "CRFError" ) =>
        /\ payload.error = "null"
        /\ pool = <<>>
        /\ touched \cap CycleArtifacts \subseteq {CRF_MODEL}
        /\ payload.incrementWords = <<>>
        /\ payload.residualCount = 0
        /\ payload.incrementContent = <<>>
        /\ payload.residualContent = <<>>

\* C26: the result of run_training_cycle depends on its own config only:
\* after any earlier calls on the same workDir, a call whose trainTgt,
\* testTgt or selectTgt is empty loads no train, test or select record, and
\* a call without a pool returns no increment and no residual.
C26_Independence ==
    bpc = "done" =>
        /\ config.trainTgt = <<>> => data.train = EmptyDataset
        /\ config.testTgt = <<>> => data.test = EmptyDataset
        /\ config.selectTgt = <<>> =>
              /\ data.select = EmptyDataset
              /\ payload.incrementWords = <<>>
              /\ payload.incrementContent = <<>>
              /\ payload.residualContent = <<>>
              /\ payload.residualCount = 0

\* C15: run_training_cycle and run_inference always return a payload; on an
\* internal failure its error is a non-null string, its metrics are 0 and
\* its increment, residual and prediction fields are empty; on success its
\* error is null.
C15_ErrorPayload ==
    /\ bpc = "done" =>
          /\ payload.error # "pending"
          /\ payload.error # "null" =>
                /\ payload.metrics = "zero"
                /\ payload.incrementWords = <<>>
                /\ payload.residualCount = 0
                /\ payload.incrementContent = <<>>
                /\ payload.residualContent = <<>>
          /\ payload.error = "null" => payload.metrics = "computed"
    /\ bpc = "inferred" =>
          /\ inference.error # "pending"
          /\ inference.error # "null" =>
                /\ inference.predictions = <<>>
                /\ inference.predictionsContent = <<>>
                /\ inference.totalWords = 0

\* A cycle that failed after it wrote an increment, and returned no part
\* of it.
C15_Witness ==
    /\ bpc = "done"
    /\ payload.error = "StatisticsError"
    /\ "increment.tgt" \in touched
    /\ payload.incrementContent = <<>>
    /\ payload.metrics = "zero"

\* C19: run_inference returns predictions only when crf.model is in workDir,
\* which only a training cycle that fitted a model puts there; before any
\* training cycle it returns the error of the missing model and no
\* prediction; and no call of run_inference writes a file of workDir.
C19_ModelReuse ==
    /\ [](bpc = "inferred" =>
            /\ inference.predictions # <<>> => (CRF_MODEL \in DOMAIN vfs /\ calls > 0)
            /\ CRF_MODEL \notin DOMAIN vfs =>
                  inference = InferencePayload("NoTrainedModel")
            /\ calls = 0 => inference = InferencePayload("NoTrainedModel"))
    /\ [](CRF_MODEL \in DOMAIN vfs => calls > 0)
    /\ [][bpc' = "inferred" => (vfs' = vfs /\ touched' = touched)]_vars

\* Two words segmented by a model that an earlier cycle left in workDir.
C19_Witness ==
    /\ bpc = "inferred"
    /\ calls = 1
    /\ inference.error = "null"
    /\ inference.totalWords = 2
    /\ inference.predictions[1] = << <<"a", "b">>, <<"a", "!", "b">> >>

(***************************************************************************)
(* The command-line cycle (scripts/crf_al.py, main).  vfs holds the files  *)
(* below {datadir}/{lang}; the directory of state n of the trajectory      *)
(* {initial_size}/{seed}/{method}/{select_interval} is written select<n>.  *)
(***************************************************************************)
SubDatadir(n) == "select" \o ToString(n)

TRAIN_SRC(dir) == dir \o "/train.100.src"
TRAIN_TGT_OF(dir) == dir \o "/train.100.tgt"
SELECT_SRC_OF(dir) == dir \o "/select.100.src"
SELECT_TGT_OF(dir) == dir \o "/select.100.tgt"
INCREMENT(dir) == dir \o "/increment"
RESIDUAL(dir) == dir \o "/residual"

\* read_file of a and of b, then write_file of their concatenation to dst;
\* open() raises on a missing file.
ConcatIntoWithoutSecond(r, a, b, dst) ==
    IF r.exc # "none" THEN r
    ELSE IF a \notin DOMAIN r.files \/ b \notin DOMAIN r.files
         THEN [exc |-> "FileNotFoundError", files |-> r.files]
         ELSE [exc |-> "none", files |-> WriteFile(r.files, dst, r.files[a])]

ConcatInto(r, a, b, dst) ==
    IF r.exc # "none" THEN r
    ELSE IF a \notin DOMAIN r.files \/ b \notin DOMAIN r.files
         THEN [exc |-> "FileNotFoundError", files |-> r.files]
         ELSE [exc |-> "none",
               files |-> WriteFile(r.files, dst, r.files[a] \o r.files[b])]

\* shutil.copy(src, dst)
CopyInto(r, src, dst) ==
    IF r.exc # "none" THEN r
    ELSE IF src \notin DOMAIN r.files
         THEN [exc |-> "FileNotFoundError", files |-> r.files]
         ELSE [exc |-> "none", files |-> WriteFile(r.files, dst, r.files[src])]

setup_datadirsIncrementFirst(files, n, s) ==
    LET sub == SubDatadir(n)
        prev == SubDatadir(n - s)
        start == [exc |-> "none", files |-> files]
    IN  IF n = 0 THEN start
        ELSE CopyInto(
               CopyInto(
                 ConcatInto(
                   ConcatInto(start, INCREMENT(prev) \o ".src", TRAIN_SRC(prev),
                              TRAIN_SRC(sub)),
                   INCREMENT(prev) \o ".tgt", TRAIN_TGT_OF(prev), TRAIN_TGT_OF(sub)),
                 RESIDUAL(prev) \o ".src", SELECT_SRC_OF(sub)),
               RESIDUAL(prev) \o ".tgt", SELECT_TGT_OF(sub))

setup_datadirs(files, n, s) ==
    LET sub == SubDatadir(n)
        prev == SubDatadir(n - s)
        start == [exc |-> "none", files |-> files]
    IN  IF n = 0 THEN start
        ELSE CopyInto(
               CopyInto(
                 ConcatInto(
                   ConcatInto(start, TRAIN_SRC(prev), INCREMENT(prev) \o ".src",
                              TRAIN_SRC(sub)),
                   TRAIN_TGT_OF(prev), INCREMENT(prev) \o ".tgt", TRAIN_TGT_OF(sub)),
                 RESIDUAL(prev) \o ".src", SELECT_SRC_OF(sub)),
               RESIDUAL(prev) \o ".tgt", SELECT_TGT_OF(sub))

\* save_predictions of reconstruct_predictions(crf.predict(X), words).
PredictionLines(ws, style) ==
    [i \in 1..Len(ws) |->
        TgtLine(reconstruct_predictions(PredictTags(ws[i], style), ws[i]).val)]

\* The three lines of eval.txt, the values left out.
EvalLines == << <<"P">>, <<"R">>, <<"F">> >>

(***************************************************************************)
(* main, step by step.                                                     *)
(***************************************************************************)
BootstrapPools ==
    {TgtFile(PoolRecords(n)) : n \in 0..MaxPool} \cup {BlankPool}

\* The files scripts 1.random_dataset.py leaves: the train and the select
\* pair of select0 and the test set of the language.
Bootstrap(train, select, test) ==
    (TRAIN_TGT_OF(SubDatadir(0)) :> train)
    @@ (TRAIN_SRC(SubDatadir(0)) :>
           [i \in 1..Len(train) |-> SrcLine(get_line_morphs(train[i]).word)])
    @@ (SELECT_TGT_OF(SubDatadir(0)) :> select)
    @@ (SELECT_SRC_OF(SubDatadir(0)) :>
           [i \in 1..Len(select) |-> SrcLine(get_line_morphs(select[i]).word)])
    @@ (TEST_TGT :> test)

MainInit ==
    /\ CodecIdle
    /\ spc = "off"
    /\ pool = <<>> /\ conf_sorted_data = <<>>
    /\ increment_data = <<>> /\ residual_data = <<>>
    /\ select_interval \in 1..MaxInterval
    /\ \E tr \in TrainFiles \ {<<>>}, se \in BootstrapPools, te \in TestFiles :
          vfs = Bootstrap(tr, se, te)
    /\ config = NoConfig /\ data = NoData /\ payload = NoPayload
    /\ calls = 0 /\ bpc = "off"
    /\ inference = NoInference /\ touched = {}
    /\ select_size = 0
    /\ exit_exc = "none"
    /\ main_runs = 0
    /\ apc = "idle"
    /\ UnitIdle

\* setup_datadirs returns.
MainSetup ==
    /\ apc = "idle"
    /\ main_runs < MaxRuns
    /\ \E n \in 0..MaxSelectSize :
          LET r == setup_datadirs(vfs, n, select_interval)
          IN  /\ r.exc = "none"
              /\ select_size' = n
              /\ vfs' = r.files
    /\ main_runs' = main_runs + 1
    /\ exit_exc' = "none"
    /\ pool' = <<>> /\ conf_sorted_data' = <<>>
    /\ increment_data' = <<>> /\ residual_data' = <<>>
    /\ data' = NoData
    /\ apc' = "setup"
    /\ UNCHANGED <<select_interval, spc, config, payload, calls, bpc, inference, touched, codecVars>>
    /\ UNCHANGED unitVars

\* setup_datadirs raises: main ends with what it wrote so far.
MainSetupFails ==
    /\ apc = "idle"
    /\ main_runs < MaxRuns
    /\ \E n \in 0..MaxSelectSize :
          LET r == setup_datadirs(vfs, n, select_interval)
          IN  /\ r.exc # "none"
              /\ select_size' = n
              /\ vfs' = r.files
              /\ exit_exc' = r.exc
    /\ main_runs' = main_runs + 1
    /\ pool' = <<>> /\ conf_sorted_data' = <<>>
    /\ increment_data' = <<>> /\ residual_data' = <<>>
    /\ data' = NoData
    /\ apc' = "idle"
    /\ UNCHANGED <<select_interval, spc, config, payload, calls, bpc, inference, touched, codecVars>>
    /\ UNCHANGED unitVars

\* process_data, get_features and build_crf.
MainBuildCrf ==
    /\ apc = "setup"
    /\ LET sub == SubDatadir(select_size)
           d == process_data(vfs, TRAIN_TGT_OF(sub), TEST_TGT, TRUE, SELECT_TGT_OF(sub))
       IN  /\ data' = d
           /\ vfs' = WriteFile(vfs, sub \o "/" \o CRF_MODEL, d.train.words)
    /\ apc' = "output"
    /\ UNCHANGED <<selectorVars, config, payload, calls, bpc, inference, touched, codecVars,
                   select_size, exit_exc, main_runs>>
    /\ UNCHANGED unitVars

MainBuildCrfFails ==
    /\ apc = "setup"
    /\ LET sub == SubDatadir(select_size)
       IN  data' = process_data(vfs, TRAIN_TGT_OF(sub), TEST_TGT, TRUE,
                                SELECT_TGT_OF(sub))
    /\ exit_exc' = "CRFError"
    /\ apc' = "idle"
    /\ UNCHANGED <<selectorVars, vfs, config, payload, calls, bpc, inference, touched, codecVars,
                   select_size, main_runs>>
    /\ UNCHANGED unitVars

MainOutputNoPool ==
    /\ apc = "output"
    /\ data.select.words = <<>>
    /\ apc' = "predictions"
    /\ UNCHANGED <<selectorVars, bridgeVars, codecVars, select_size, exit_exc,
                   main_runs>>
    /\ UNCHANGED unitVars

MainOutputScoresFail ==
    /\ apc = "output"
    /\ data.select.words # <<>>
    /\ ScoresRaise(data.select.words)
    /\ exit_exc' = "ZeroDivisionError"
    /\ apc' = "idle"
    /\ UNCHANGED <<selectorVars, bridgeVars, codecVars, select_size, main_runs>>
    /\ UNCHANGED unitVars

MainOutputSelect ==
    /\ apc = "output"
    /\ data.select.words # <<>>
    /\ ~ScoresRaise(data.select.words)
    /\ \E cs \in [1..Len(data.select.words) -> CycleConfLevels] :
          LET r == SelectAndSave(vfs, SubDatadir(select_size) \o "/", data.select,
                                 cs, select_interval)
          IN  /\ pool' = Zip3(data.select.words, data.select.morphs, cs)
              /\ conf_sorted_data' = r.sorted
              /\ increment_data' = r.increment
              /\ residual_data' = r.residual
              /\ vfs' = r.files
              /\ IF r.exc = "none"
                 THEN exit_exc' = exit_exc /\ apc' = "predictions"
                 ELSE exit_exc' = r.exc /\ apc' = "idle"
    /\ UNCHANGED <<select_interval, spc, config, data, payload, calls, bpc, inference, touched,
                   codecVars, select_size, main_runs>>
    /\ UNCHANGED unitVars

\* The files main writes after build_and_output_crf, up to the evaluation.
WithPredictions(files, sub, d, style) ==
    LET t == WriteFile(files, sub \o "/test.full.pred",
                       PredictionLines(d.test.words, style))
    IN  IF SELECT_SRC_OF(sub) \in DOMAIN files
        THEN WriteFile(t, sub \o "/select.100.pred",
                       PredictionLines(d.select.words, style))
        ELSE t

\* The predictions are saved, then statistics.mean of no scores raises.
MainEvaluateFails ==
    /\ apc = "predictions"
    /\ data.test.words = <<>>
    /\ \E style \in ModelStyles :
          vfs' = WithPredictions(vfs, SubDatadir(select_size), data, style)
    /\ exit_exc' = "StatisticsError"
    /\ apc' = "idle"
    /\ UNCHANGED <<selectorVars, config, data, payload, calls, bpc, inference, touched, codecVars,
                   select_size, main_runs>>
    /\ UNCHANGED unitVars

\* The predictions are saved, evaluated, and eval.txt is written.
MainFinish ==
    /\ apc = "predictions"
    /\ data.test.words # <<>>
    /\ \E style \in ModelStyles :
          vfs' = WriteFile(
                    WithPredictions(vfs, SubDatadir(select_size), data, style),
                    SubDatadir(select_size) \o "/eval.txt", EvalLines)
    /\ apc' = "idle"
    /\ UNCHANGED <<selectorVars, config, data, payload, calls, bpc, inference, touched, codecVars,
                   select_size, exit_exc, main_runs>>
    /\ UNCHANGED unitVars

MainNext ==
    \/ MainSetup
    \/ MainSetupFails
    \/ MainBuildCrf
    \/ MainBuildCrfFails
    \/ MainOutputNoPool
    \/ MainOutputScoresFail
    \/ MainOutputSelect
    \/ MainEvaluateFails
    \/ MainFinish

SpecMain == MainInit /\ [][MainNext]_vars

(***************************************************************************)
(* Properties of the state transition of main.                             *)
(***************************************************************************)
\* setup_datadirs has returned for a state past the bootstrap.
SetupReturned == apc = "setup" /\ select_size > 0

PrevDatadir == SubDatadir(select_size - select_interval)

\* C10: for a cycle with cumulative selection size n > 0 and step size s,
\* setup_datadirs makes the train set of the cycle the train set of state
\* n-s followed by the increment of state n-s, and its pool the residual
\* of state n-s, in the .src and in the .tgt files.
C10_StateTransition ==
    SetupReturned =>
        LET sub == SubDatadir(select_size)
            prev == PrevDatadir
        IN  /\ vfs[TRAIN_SRC(sub)] =
                  vfs[TRAIN_SRC(prev)] \o vfs[INCREMENT(prev) \o ".src"]
            /\ vfs[TRAIN_TGT_OF(sub)] =
                  vfs[TRAIN_TGT_OF(prev)] \o vfs[INCREMENT(prev) \o ".tgt"]
            /\ vfs[SELECT_SRC_OF(sub)] = vfs[RESIDUAL(prev) \o ".src"]
            /\ vfs[SELECT_TGT_OF(sub)] = vfs[RESIDUAL(prev) \o ".tgt"]
            /\ LoadLines(vfs[TRAIN_TGT_OF(sub)]).morphs =
                  LoadLines(vfs[TRAIN_TGT_OF(prev)]).morphs
                  \o LoadLines(vfs[INCREMENT(prev) \o ".tgt"]).morphs
            /\ LoadLines(vfs[SELECT_TGT_OF(sub)]).morphs =
                  LoadLines(vfs[RESIDUAL(prev) \o ".tgt"]).morphs

\* State 2 of a trajectory of step 2: a train set of one bootstrap record
\* and two selected ones, and a pool of one record left.
C10_Witness ==
    /\ SetupReturned
    /\ select_size = 2
    /\ select_interval = 2
    /\ Len(vfs[TRAIN_TGT_OF(SubDatadir(2))]) = 3
    /\ Len(vfs[TRAIN_SRC(SubDatadir(2))]) = 3
    /\ Len(vfs[SELECT_TGT_OF(SubDatadir(2))]) = 1
    /\ vfs[TRAIN_TGT_OF(SubDatadir(2))][1] = vfs[TRAIN_TGT_OF(SubDatadir(0))][1]

(***************************************************************************)
(* Properties of a trajectory of main.                                     *)
(***************************************************************************)
\* The records of a .tgt file of the trajectory, and the words of a .src.
RecordsOf(path) == LoadLines(vfs[path]).morphs
WordsOf(path) == [i \in 1..Len(vfs[path]) |-> Unspaced(vfs[path][i])]

Elements(s) == {s[i] : i \in 1..Len(s)}

\* a and b hold the same elements, each as often in a as in b.
SameBag(a, b) ==
    \A x \in Elements(a) \cup Elements(b) : Occurrences(a, x) = Occurrences(b, x)

\* The states of the trajectory whose train set and pool exist.
StatesSetUp ==
    {n \in 0..MaxSelectSize :
        {TRAIN_TGT_OF(SubDatadir(n)), SELECT_TGT_OF(SubDatadir(n)),
         TRAIN_SRC(SubDatadir(n)), SELECT_SRC_OF(SubDatadir(n))} \subseteq DOMAIN vfs}

\* The states whose cycle has written its increment and its residual.
StatesSelected ==
    {n \in StatesSetUp :
        /\ (apc = "idle" \/ n # select_size)
        /\ {INCREMENT(SubDatadir(n)) \o ".tgt", RESIDUAL(SubDatadir(n)) \o ".tgt",
            INCREMENT(SubDatadir(n)) \o ".src", RESIDUAL(SubDatadir(n)) \o ".src"}
              \subseteq DOMAIN vfs}

BootstrapRecords ==
    RecordsOf(TRAIN_TGT_OF(SubDatadir(0))) \o RecordsOf(SELECT_TGT_OF(SubDatadir(0)))

BootstrapWords ==
    WordsOf(TRAIN_SRC(SubDatadir(0))) \o WordsOf(SELECT_SRC_OF(SubDatadir(0)))

Conserved ==
    /\ \A n \in StatesSetUp :
          LET sub == SubDatadir(n)
              train0 == RecordsOf(TRAIN_TGT_OF(SubDatadir(0)))
              train == RecordsOf(TRAIN_TGT_OF(sub))
              select == RecordsOf(SELECT_TGT_OF(sub))
          IN  /\ SameBag(train \o select, BootstrapRecords)
              /\ SameBag(WordsOf(TRAIN_SRC(sub)) \o WordsOf(SELECT_SRC_OF(sub)),
                         BootstrapWords)
              /\ Len(train) >= Len(train0)
              /\ SubSeq(train, 1, Len(train0)) = train0
    /\ \A n \in StatesSelected :
          LET sub == SubDatadir(n)
          IN  /\ SameBag(RecordsOf(TRAIN_TGT_OF(sub))
                           \o RecordsOf(INCREMENT(sub) \o ".tgt")
                           \o RecordsOf(RESIDUAL(sub) \o ".tgt"),
                         BootstrapRecords)
              /\ SameBag(WordsOf(TRAIN_SRC(sub))
                           \o WordsOf(INCREMENT(sub) \o ".src")
                           \o WordsOf(RESIDUAL(sub) \o ".src"),
                         BootstrapWords)

\* C24: along a trajectory none of whose cycles fails, the records of the
\* train set of every state together with the records of its pool (before
\* the selection of the state: its select files; after it: its increment
\* and its residual) are exactly the records of the bootstrap train set and
\* the bootstrap pool, each as often, and the bootstrap train set stays at
\* the head of every train set.
C24_Conservation == [](exit_exc = "none") => []Conserved

\* State 1 of a trajectory of step 1, its cycle finished: two records in
\* the train set, one selected, one left in the pool.
C24_Witness ==
    /\ apc = "idle"
    /\ main_runs = 2
    /\ exit_exc = "none"
    /\ select_size = 1
    /\ select_interval = 1
    /\ 1 \in StatesSelected
    /\ Len(vfs[TRAIN_TGT_OF(SubDatadir(1))]) = 2
    /\ Len(vfs[INCREMENT(SubDatadir(1)) \o ".tgt"]) = 1
    /\ Len(vfs[RESIDUAL(SubDatadir(1)) \o ".tgt"]) = 1
    /\ SubDatadir(1) \o "/eval.txt" \in DOMAIN vfs

\* The sizes of the states: n records moved from the pool to the train set.
SizesFollowState ==
    /\ \A n \in StatesSetUp :
          LET sub == SubDatadir(n)
              boot == SubDatadir(0)
          IN  /\ Len(RecordsOf(TRAIN_TGT_OF(sub))) =
                    Len(RecordsOf(TRAIN_TGT_OF(boot))) + n
              /\ Len(vfs[TRAIN_SRC(sub)]) = Len(vfs[TRAIN_SRC(boot)]) + n
              /\ Len(RecordsOf(SELECT_TGT_OF(sub))) + n =
                    Len(RecordsOf(SELECT_TGT_OF(boot)))
              /\ n % select_interval = 0
    /\ \A n \in StatesSelected :
          Len(RecordsOf(INCREMENT(SubDatadir(n)) \o ".tgt")) = select_interval

\* C25: the train set of every state n of a trajectory of step size s
\* holds exactly |train(0)| + n records, n a multiple of s, and its pool n
\* records less than the bootstrap pool: the cumulative selection size that
\* names the state is the number of records moved from the pool into the
\* train set so far, each cycle moving s of them.
C25_CumulativeSize == SizesFollowState

\* State 1 of a trajectory of step 1 is set up: one record has joined the
\* bootstrap record in the train set and two are left of a pool of three.
C25_Witness ==
    /\ SetupReturned
    /\ select_size = 1
    /\ select_interval = 1
    /\ Len(vfs[TRAIN_TGT_OF(SubDatadir(0))]) = 1
    /\ Len(vfs[TRAIN_TGT_OF(SubDatadir(1))]) = 2
    /\ Len(vfs[SELECT_TGT_OF(SubDatadir(0))]) = 3
    /\ Len(vfs[SELECT_TGT_OF(SubDatadir(1))]) = 2

(***************************************************************************)
(* Confidence scoring (scripts/crf_al.py, get_confidence_scores).  A       *)
(* probability is a number of ProbUnits-th parts; a marginal is a function *)
(* from the labels to probabilities; a score is the fraction <<num, den>>. *)
(***************************************************************************)
MaxScoreLen == 2    \* words scored have 0..MaxScoreLen characters

ProbUnits == 2      \* probabilities are 0/ProbUnits .. ProbUnits/ProbUnits

ScoreLabels == BMES \cup {"[", "]"}

\* sum(boundless_marg[i][label] for i, label in enumerate(boundless_pred))
RECURSIVE SumMarginals(_, _)
SumMarginals(labels, marg) ==
    IF labels = <<>> THEN 0
    ELSE marg[1][labels[1]] + SumMarginals(Tail(labels), Tail(marg))

\* The body of the loop of get_confidence_scores, for one word.
get_confidence_scoresWithSentinels(w, prediction, marginal) ==
    IF Len(w) = 0 THEN [exc |-> "ZeroDivisionError", val |-> <<0, 1>>]
    ELSE [exc |-> "none",
          val |-> <<SumMarginals(prediction, marginal), ProbUnits * Len(w)>>]

get_confidence_scores(w, prediction, marginal) ==
    LET boundless_pred == PySlice(prediction, 1, -1)
        boundless_marg == PySlice(marginal, 1, -1)
    IN  IF Len(w) = 0 THEN [exc |-> "ZeroDivisionError", val |-> <<0, 1>>]
        ELSE [exc |-> "none",
              val |-> <<SumMarginals(boundless_pred, boundless_marg),
                        ProbUnits * Len(w)>>]

(***************************************************************************)
(* Inputs of the scoring: a word, the tags predicted for it and a          *)
(* probability distribution at every position, the sentinels included.     *)
(***************************************************************************)
ScoredWords == {[i \in 1..n |-> "a"] : n \in 0..MaxScoreLen}

\* The distributions of a model that hesitates between B and S; what they
\* leave goes to the label "[".
InnerMarginals ==
    {[l \in ScoreLabels |->
        CASE l = "B" -> b
          [] l = "S" -> z
          [] l = "[" -> ProbUnits - (b + z)
          [] OTHER -> 0] :
      b \in 0..ProbUnits, z \in 0..ProbUnits} \cap
    [ScoreLabels -> 0..ProbUnits]

\* At a sentinel position: all on the sentinel, or all on S.
SentinelMarginals(sentinel) ==
    {[l \in ScoreLabels |-> IF l = sentinel THEN ProbUnits ELSE 0],
     [l \in ScoreLabels |-> IF l = "S" THEN ProbUnits ELSE 0]}

Marginals(w) ==
    {<<first>> \o inner \o <<last>> :
        first \in SentinelMarginals("["),
        inner \in [1..Len(w) -> InnerMarginals],
        last \in SentinelMarginals("]")}

ScoreInit ==
    /\ SelectorIdle
    /\ BridgeIdle
    /\ MainIdle
    /\ EvalIdle
    /\ FormatIdle
    /\ FeatIdle
    /\ gold = <<>> /\ morphs = <<>> /\ raised = "none" /\ cpc = "off"
    /\ word \in ScoredWords
    /\ pred \in TagSeqs(word)
    /\ marginals \in Marginals(word)
    /\ confscore = <<0, 1>>
    /\ kpc = "predicted"

GetConfidenceScores ==
    /\ kpc = "predicted"
    /\ LET r == get_confidence_scores(word, pred, marginals)
       IN  /\ confscore' = r.val
           /\ raised' = r.exc
    /\ kpc' = "scored"
    /\ UNCHANGED <<word, gold, pred, morphs, cpc, marginals, selectorVars,
                   bridgeVars, mainVars, evalVars, formatVars,
                   featVars>>

ScoreNext == GetConfidenceScores

SpecScore == ScoreInit /\ [][ScoreNext]_vars

(***************************************************************************)
(* Properties of the confidence score.                                     *)
(***************************************************************************)
\* The probability the marginals give the predicted tag at inner position i.
InnerProb(i) == marginals[i + 1][pred[i + 1]]

RECURSIVE InnerProbSum(_)
InnerProbSum(n) == IF n = 0 THEN 0 ELSE InnerProb(n) + InnerProbSum(n - 1)

\* C16: for a word of n >= 1 characters the score is the sum over the n
\* inner positions of the marginal probability of the predicted tag,
\* divided by n: a value in [0,1] in which the marginals of the two
\* sentinel positions have no part.
C16_ConfidenceBounds ==
    (kpc = "scored" /\ Len(word) >= 1) =>
        /\ raised = "none"
        /\ confscore = <<InnerProbSum(Len(word)), ProbUnits * Len(word)>>
        /\ 0 <= confscore[1]
        /\ confscore[1] <= confscore[2]

\* The score 3/4 of a two-character word, the mass at both sentinel
\* positions on another label than the one predicted there.
C16_Witness ==
    /\ kpc = "scored"
    /\ Len(word) = 2
    /\ confscore = <<3, 4>>
    /\ marginals[1]["["] = 0
    /\ marginals[4]["]"] = 0

(***************************************************************************)
(* The evaluator (scripts/crf_al.py, calculate_metrics and                 *)
(* evaluate_predictions).  A metric is a number of hundredths, 100.00      *)
(* being 10000: what round(x, 2) keeps.  The metrics of the payload of the *)
(* bridge are numbers of ten-thousandths, what round(x / 100, 4) keeps.    *)
(***************************************************************************)
MaxMorphs == 2      \* morphs in a gold or predicted list of the evaluator

RECURSIVE Pow10(_)
Pow10(k) == IF k = 0 THEN 1 ELSE 10 * Pow10(k - 1)

\* round(num / den, places), in units of 10^-places.  The floats of the
\* code settle an exact tie either way, by the binary value next to it.
RoundTo(num, den, places) ==
    LET q == num * Pow10(places)
        lo == q \div den
        r == q % den
    IN  IF 2 * r < den THEN {lo}
        ELSE IF 2 * r > den THEN {lo + 1}
        ELSE {lo, lo + 1}

\* m in y_true
InList(m, list) == \E j \in 1..Len(list) : list[j] = m

\* sum(1 for m in y_pred if m in y_true)
CorrectTotal(y_true, y_pred) ==
    Cardinality({i \in 1..Len(y_pred) : InList(y_pred[i], y_true)})

\* The three rounded metrics, for lists that are not empty.
MetricValues(correct_total, y_true, y_pred) ==
    LET \* precision and recall before rounding, as fractions
        pn == correct_total * 100
        pd == Len(y_pred)
        rn == correct_total * 100
        rd == Len(y_true)
        \* 2 * (precision * recall) / (precision + recall)
        fn == 2 * (pn * rn) * (pd * rd)
        fd == (pd * rd) * (pn * rd + rn * pd)
    IN  {<<pr, re, f1>> :
            pr \in RoundTo(pn, pd, 2),
            re \in RoundTo(rn, rd, 2),
            f1 \in IF pn * rd + rn * pd # 0 THEN RoundTo(fn, fd, 2) ELSE {0}}

\* What calculate_metrics can return: exc, or one of vals.
calculate_metricsNoEmptyCheck(y_true, y_pred) ==
    IF Len(y_pred) = 0 \/ Len(y_true) = 0
    THEN [exc |-> "ZeroDivisionError", vals |-> {}]
    ELSE [exc |-> "none",
          vals |-> MetricValues(CorrectTotal(y_true, y_pred), y_true, y_pred)]

calculate_metricsDistinct(y_true, y_pred) ==
    LET correct_total ==
            Cardinality({y_pred[i] : i \in 1..Len(y_pred)}
                        \cap {y_true[j] : j \in 1..Len(y_true)})
    IN  IF y_pred = <<>> THEN [exc |-> "none", vals |-> {NoScores}]
        ELSE IF Len(y_true) = 0 THEN [exc |-> "ZeroDivisionError", vals |-> {}]
        ELSE [exc |-> "none", vals |-> MetricValues(correct_total, y_true, y_pred)]

calculate_metrics(y_true, y_pred) ==
    IF y_pred = <<>> THEN [exc |-> "none", vals |-> {NoScores}]
    ELSE IF Len(y_true) = 0 THEN [exc |-> "ZeroDivisionError", vals |-> {}]
    ELSE [exc |-> "none",
          vals |-> MetricValues(CorrectTotal(y_true, y_pred), y_true, y_pred)]

RECURSIVE SumColumn(_, _)
SumColumn(list, k) ==
    IF list = <<>> THEN 0 ELSE Head(list)[k] + SumColumn(Tail(list), k)

\* round(statistics.mean(x), 2) for column k of the scores.
MeanOf(list, k) == RoundTo(SumColumn(list, k), Len(list) * 100, 2)

\* round(precision / 100, 4) of the payload of run_training_cycle.
Normalised(metric) == RoundTo(metric, 100 * 100, 4)

(***************************************************************************)
(* Inputs of the evaluator: a test set of no word, of one word with any    *)
(* gold and any predicted list, or of that word and a second one.          *)
(***************************************************************************)
EvalMorphs == {<<"a">>, <<"b">>, <<"a", "b">>}

GoldLists == UNION {[1..n -> EvalMorphs] : n \in 1..MaxMorphs}

PredLists == UNION {[1..n -> EvalMorphs] : n \in 0..MaxMorphs}

\* The second word: predicted as in gold, not predicted at all, or half.
OtherPairs ==
    { << << <<"a">>, <<"a">> >>, << <<"a">>, <<"a">> >> >>,
      << << <<"a", "b">> >>, <<>> >>,
      << << <<"a">>, <<"b">> >>, << <<"a">> >> >> }

EvalInit ==
    /\ CodecIdle
    /\ SelectorIdle
    /\ BridgeIdle
    /\ MainIdle
    /\ ScoreIdle
    /\ FormatIdle
    /\ FeatIdle
    /\ \/ gold_word = <<>> /\ pred_word = <<>>
       \/ \E g \in GoldLists, p \in PredLists :
             \/ gold_word = <<g>> /\ pred_word = <<p>>
             \/ \E o \in OtherPairs :
                   gold_word = <<g, o[1]>> /\ pred_word = <<p, o[2]>>
    /\ scores = <<>>
    /\ average = NoScores
    /\ reported = NoScores
    /\ eval_exc = "none"
    /\ epc = "loop"

\* One pass of the loop of evaluate_predictions.
CalculateMetrics ==
    /\ epc = "loop"
    /\ Len(scores) < Min(Len(gold_word), Len(pred_word))
    /\ LET i == Len(scores) + 1
           r == calculate_metrics(gold_word[i], pred_word[i])
       IN  IF r.exc # "none"
           THEN eval_exc' = r.exc /\ epc' = "raised" /\ scores' = scores
           ELSE /\ \E v \in r.vals : scores' = Append(scores, v)
                /\ UNCHANGED <<eval_exc, epc>>
    /\ UNCHANGED <<gold_word, pred_word, average, reported, codecVars,
                   selectorVars, bridgeVars, mainVars, scoreVars, formatVars,
                   featVars>>

\* statistics.mean of an empty list raises.
MeanFails ==
    /\ epc = "loop"
    /\ Len(scores) = Min(Len(gold_word), Len(pred_word))
    /\ scores = <<>>
    /\ eval_exc' = "StatisticsError"
    /\ epc' = "raised"
    /\ UNCHANGED <<gold_word, pred_word, scores, average, reported, codecVars,
                   selectorVars, bridgeVars, mainVars, scoreVars, formatVars,
                   featVars>>

\* The three means, rounded.
Mean ==
    /\ epc = "loop"
    /\ Len(scores) = Min(Len(gold_word), Len(pred_word))
    /\ scores # <<>>
    /\ \E pr \in MeanOf(scores, 1), re \in MeanOf(scores, 2), f1 \in MeanOf(scores, 3) :
          average' = <<pr, re, f1>>
    /\ epc' = "evaluated"
    /\ UNCHANGED <<gold_word, pred_word, scores, reported, eval_exc, codecVars,
                   selectorVars, bridgeVars, mainVars, scoreVars, formatVars,
                   featVars>>

\* The precision, recall and f1 of the payload of run_training_cycle.
Report ==
    /\ epc = "evaluated"
    /\ \E pr \in Normalised(average[1]), re \in Normalised(average[2]),
          f1 \in Normalised(average[3]) :
          reported' = <<pr, re, f1>>
    /\ epc' = "reported"
    /\ UNCHANGED <<gold_word, pred_word, scores, average, eval_exc, codecVars,
                   selectorVars, bridgeVars, mainVars, scoreVars, formatVars,
                   featVars>>

EvalNext == CalculateMetrics \/ MeanFails \/ Mean \/ Report

SpecEval == EvalInit /\ [][EvalNext]_vars

(***************************************************************************)
(* Properties of the evaluator.                                            *)
(***************************************************************************)
\* C17: calculate_metrics returns (0, 0, 0) for an empty predicted list, and
\* for a gold list of at least one morph and any predicted list it returns
\* without a division fault, with (0, 0, 0) when no predicted morph is in
\* gold.
C17_EmptyPrediction ==
    /\ eval_exc # "ZeroDivisionError"
    /\ epc # "loop" /\ gold_word # <<>> => Len(scores) = Len(gold_word)
    /\ \A i \in 1..Len(scores) :
          /\ pred_word[i] = <<>> => scores[i] = <<0, 0, 0>>
          /\ CorrectTotal(gold_word[i], pred_word[i]) = 0 => scores[i] = <<0, 0, 0>>

\* Scored: a word none of whose two predicted morphs is in gold, and a
\* word with no predicted morph.
C17_Witness ==
    /\ Len(scores) = 2
    /\ Len(pred_word[1]) = 2
    /\ CorrectTotal(gold_word[1], pred_word[1]) = 0
    /\ pred_word[2] = <<>>
    /\ scores = << <<0, 0, 0>>, <<0, 0, 0>> >>

\* C18: when the predicted list equals the gold list, calculate_metrics
\* returns precision = recall = F1 = 100, and a test set predicted exactly
\* is reported by run_training_cycle as 1.0 three times.
C18_ExactMatch ==
    /\ \A i \in 1..Len(scores) :
          pred_word[i] = gold_word[i] => scores[i] = <<10000, 10000, 10000>>
    /\ (epc = "reported" /\ pred_word = gold_word) =>
          /\ average = <<10000, 10000, 10000>>
          /\ reported = <<10000, 10000, 10000>>

\* Reported: two words predicted exactly, one of them a morph twice.
C18_Witness ==
    /\ epc = "reported"
    /\ Len(gold_word) = 2
    /\ pred_word = gold_word
    /\ gold_word[1] = << <<"a", "b">>, <<"a", "b">> >>
    /\ reported = <<10000, 10000, 10000>>

\* C28: for every gold list of at least one morph and every predicted
\* list, the precision, recall and F1 calculate_metrics returns lie in
\* [0, 100] (metrics are in hundredths: 100.00 is 10000).
C28_MetricRange ==
    \A i \in 1..Len(scores) :
        gold_word[i] # <<>> =>
            \A k \in 1..3 : 0 <= scores[i][k] /\ scores[i][k] <= 10000

(***************************************************************************)
(* Feature construction (scripts/crf_al.py, get_char_features and          *)
(* get_word_features).  A feature key is the prefix followed by the        *)
(* characters of the substring or the digits of the index; a CharFeatures  *)
(* dict is a function from its keys to 1.                                  *)
(***************************************************************************)
MaxFeatLen == 2     \* words featurised have 0..MaxFeatLen characters

MaxDelta == 2       \* the context window is 0..MaxDelta

Digit(d) == <<"0", "1", "2", "3", "4", "5", "6", "7", "8", "9">>[d + 1]

\* str(n) for n >= 0, as the f-string formats the index.
RECURSIVE PyStr(_)
PyStr(n) ==
    IF n < 10 THEN <<Digit(n)>> ELSE PyStr(n \div 10) \o <<Digit(n % 10)>>

RightKey(sub) == <<"right_">> \o sub
LeftKey(sub) == <<"left_">> \o sub
PosKey(i) == <<"pos_start_">> \o PyStr(i)

get_char_featuresNoBreak(bounded, i, d) ==
    LET keys == {RightKey(PySlice(bounded, i, i + j + 1)) : j \in 0..(d - 1)}
                \cup {LeftKey(PySlice(bounded, i - j - 1, i)) : j \in 0..(d - 1)}
                \cup {PosKey(i)}
    IN  [k \in keys |-> 1]

\* get_char_features(bounded, i, delta); the second loop breaks at the
\* first j with i - j - 1 < 0, and i - j - 1 only decreases with j.
get_char_features(bounded, i, d) ==
    LET keys == {RightKey(PySlice(bounded, i, i + j + 1)) : j \in 0..(d - 1)}
                \cup {LeftKey(PySlice(bounded, i - j - 1, i)) :
                         j \in {x \in 0..(d - 1) : i - x - 1 >= 0}}
                \cup {PosKey(i)}
    IN  [k \in keys |-> 1]

\* f'[{word}]'
Bounded(w) == <<"[">> \o w \o <<"]">>

\* The label of position i (0-based) of the bounded word: the branch at
\* lines 244-247.  bmes[word][i-1] raises KeyError on a word the dict does
\* not hold and IndexError past the end of the label string.
LabelAtUnshifted(bounded, w, bmes, i) ==
    IF bounded[i + 1] \in {"[", "]"} THEN [exc |-> "none", val |-> bounded[i + 1]]
    ELSE IF w \notin DOMAIN bmes THEN [exc |-> "KeyError", val |-> ""]
    ELSE IF i >= Len(bmes[w]) THEN [exc |-> "IndexError", val |-> ""]
    ELSE [exc |-> "none", val |-> bmes[w][i + 1]]

LabelAt(bounded, w, bmes, i) ==
    IF bounded[i + 1] \in {"[", "]"} THEN [exc |-> "none", val |-> bounded[i + 1]]
    ELSE IF w \notin DOMAIN bmes THEN [exc |-> "KeyError", val |-> ""]
    ELSE IF i - 1 >= Len(bmes[w]) THEN [exc |-> "IndexError", val |-> ""]
    ELSE [exc |-> "none", val |-> bmes[w][i]]

get_word_features(w, bmes, d) ==
    LET bounded_word == Bounded(w)
        n == Len(bounded_word)
        label == [i \in 1..n |-> LabelAt(bounded_word, w, bmes, i - 1)]
        failed == {i \in 1..n : label[i].exc # "none"}
    IN  IF failed # {}
        THEN [exc |-> label[CHOOSE i \in failed : \A j \in failed : i <= j].exc,
              val |-> NoFeatures]
        ELSE [exc |-> "none",
              val |-> [features |-> [i \in 1..n |->
                                        get_char_features(bounded_word, i - 1, d)],
                       labels |-> [i \in 1..n |-> label[i].val],
                       word_chars |-> bounded_word]]

\* get_features: get_word_features of every word, with the one bmes dict.
get_features(ws, bmes, d) ==
    LET r == [k \in 1..Len(ws) |-> get_word_features(ws[k], bmes, d)]
        failed == {k \in 1..Len(ws) : r[k].exc # "none"}
    IN  IF failed # {}
        THEN [exc |-> r[CHOOSE k \in failed : \A j \in failed : k <= j].exc,
              val |-> NoFeatures]
        ELSE [exc |-> "none",
              val |-> [features |-> [k \in 1..Len(ws) |-> r[k].val.features],
                       labels |-> [k \in 1..Len(ws) |-> r[k].val.labels],
                       word_chars |-> [k \in 1..Len(ws) |-> r[k].val.word_chars]]]

(***************************************************************************)
(* Writing and reading back a .tgt file (scripts/crf_al.py, save_data,     *)
(* save_predictions and load_file_data).                                   *)
(***************************************************************************)
save_predictionsUnspaced(files, predictions, file_path) ==
    WriteFile(files, file_path,
              [i \in 1..Len(predictions) |-> Spaced(Join(predictions[i]))])

\* save_predictions: the line ' '.join('!'.join(morphs)) for each list.
save_predictions(files, predictions, file_path) ==
    WriteFile(files, file_path,
              [i \in 1..Len(predictions) |-> TgtLine(predictions[i])])

\* A morph the format can hold: not empty, no whitespace and no '!'.
PlainMorph(m) == m # <<>> /\ \A i \in 1..Len(m) : m[i] \notin {" ", "!"}

PlainMorphList(ms) == ms # <<>> /\ \A k \in 1..Len(ms) : PlainMorph(ms[k])

\* The record load_file_data makes of a morph list.
RecordOf(ms) == <<Join(ms), ms, 0>>

\* The first record: any segmentation of any word.
FirstRecords == {RecordOf(ms) : ms \in UNION {MorphLists(w) : w \in Words}}

\* The records after it: words of the lexicon, and morph lists the format
\* cannot hold: a morph with '!', a morph with a blank, no morph at all.
LaterRecords ==
    {RecordOf(Lexicon[i]) : i \in 1..3}
    \cup {RecordOf(<< <<"a", "!", "b">> >>), RecordOf(<< <<"a", " ">>, <<"b">> >>),
          RecordOf(<<>>)}

FormatInit ==
    /\ CodecIdle
    /\ MainIdle
    /\ EvalIdle
    /\ ScoreIdle
    /\ delta = MaxDelta /\ position = 0 /\ char_dict = <<>>
    /\ word_features = NoFeatures /\ gpc = "off"
    /\ \/ pool = <<>>
       \/ \E r \in FirstRecords :
             \/ pool = <<r>>
             \/ \E o \in LaterRecords : pool = <<r, o>> \/ pool = <<o, r>>
    /\ select_interval = 0 /\ conf_sorted_data = <<>>
    /\ increment_data = <<>> /\ residual_data = <<>> /\ spc = "off"
    /\ vfs = NoFiles /\ config = NoConfig /\ data = NoData
    /\ payload = NoPayload /\ calls = 0 /\ bpc = "off"
    /\ inference = NoInference /\ touched = {}
    /\ loaded = EmptyDataset
    /\ fpc = "start"

\* save_data(pool, '', 'residual'), which raises on no record.
SaveData ==
    /\ fpc = "start"
    /\ LET r == save_data(vfs, pool, "residual")
       IN  /\ vfs' = r.files
           /\ fpc' = IF r.exc = "none" THEN "saved_data" ELSE "raised"
    /\ UNCHANGED <<pool, select_interval, conf_sorted_data, increment_data,
                   residual_data, spc, config, data, payload, calls, bpc,
                   inference, touched, loaded, codecVars, mainVars, evalVars,
                   scoreVars, featVars>>

\* save_predictions of the morph lists of the pool.
SavePredictions ==
    /\ fpc = "start"
    /\ vfs' = save_predictions(vfs, Column(pool, 2), "select.pred")
    /\ fpc' = "saved_predictions"
    /\ UNCHANGED <<pool, select_interval, conf_sorted_data, increment_data,
                   residual_data, spc, config, data, payload, calls, bpc,
                   inference, touched, loaded, codecVars, mainVars, evalVars,
                   scoreVars, featVars>>

\* load_file_data of the .tgt file just written.
LoadFileData ==
    /\ fpc \in {"saved_data", "saved_predictions"}
    /\ loaded' = load_file_data(vfs, TRUE,
                     IF fpc = "saved_data" THEN "residual.tgt" ELSE "select.pred")
    /\ fpc' = IF fpc = "saved_data" THEN "loaded_data" ELSE "loaded_predictions"
    /\ UNCHANGED <<selectorVars, vfs, config, data, payload, calls, bpc, inference,
                   touched, codecVars, mainVars, evalVars, scoreVars,
                   featVars>>

\* get_features of the split just loaded, as build_crf and output_crf
\* call it.
GetFeatures ==
    /\ fpc \in {"loaded_data", "loaded_predictions"}
    /\ LET r == get_features(loaded.words, loaded.bmes, delta)
       IN  /\ word_features' = r.val
           /\ raised' = r.exc
    /\ fpc' = "features"
    /\ UNCHANGED <<selectorVars, bridgeVars, mainVars, evalVars, scoreVars,
                   loaded, word, gold, pred, morphs, cpc, delta, position,
                   char_dict, gpc>>

FormatNext == SaveData \/ SavePredictions \/ LoadFileData \/ GetFeatures

SpecFormat == FormatInit /\ [][FormatNext]_vars

FeatAlphabet == Alphabet \cup {"[", "]"}

FeatWords == UNION {[1..n -> FeatAlphabet] : n \in 0..MaxFeatLen}

\* The bmes dict load_file_data makes of a file that holds the one record.
WordBmes == [w \in {word} |-> get_bmes_labels(gold)]

FeatInit ==
    /\ SelectorIdle
    /\ BridgeIdle
    /\ MainIdle
    /\ EvalIdle
    /\ ScoreIdle
    /\ FormatIdle
    /\ word \in FeatWords
    /\ gold \in MorphLists(word)
    /\ pred = <<>> /\ morphs = <<>> /\ raised = "none" /\ cpc = "off"
    /\ delta \in 0..MaxDelta
    /\ position = 0
    /\ char_dict = <<>>
    /\ word_features = NoFeatures
    /\ gpc = "start"

\* One call of get_char_features, as the loop of get_word_features makes it.
GetCharFeatures ==
    /\ gpc = "start"
    /\ \E i \in 0..(Len(Bounded(word)) - 1) :
          /\ position' = i
          /\ char_dict' = get_char_features(Bounded(word), i, delta)
    /\ gpc' = "char_features"
    /\ UNCHANGED <<codecVars, delta, word_features, selectorVars, bridgeVars,
                   mainVars, evalVars, scoreVars, formatVars>>

GetWordFeatures ==
    /\ gpc = "start"
    /\ LET r == get_word_features(word, WordBmes, delta)
       IN  /\ word_features' = r.val
           /\ raised' = r.exc
    /\ gpc' = "word_features"
    /\ UNCHANGED <<word, gold, pred, morphs, cpc, delta, position, char_dict,
                   selectorVars, bridgeVars, mainVars, evalVars, scoreVars,
                   formatVars>>

FeatNext == GetCharFeatures \/ GetWordFeatures

SpecFeat == FeatInit /\ [][FeatNext]_vars

(***************************************************************************)
(* Properties of the feature construction.                                 *)
(***************************************************************************)
\* Only the two end positions carry a sentinel label, every inner position
\* i carrying character i-1 of the label string of the word.
SentinelsAtEnds ==
    LET ls == word_features.labels
        b == get_bmes_labels(gold)
    IN  /\ raised = "none"
        /\ Len(ls) = Len(word) + 2
        /\ ls[1] = "[" /\ ls[Len(ls)] = "]"
        /\ \A i \in 1..Len(word) : ls[i + 1] = b[i] /\ ls[i + 1] \in BMES

\* C21 as stated: for every word, get_word_features returns len(word)+2
\* labels of which only the first and the last are sentinel labels, every
\* inner position i carrying character i-1 of the word's label string, a
\* label in {B,M,E,S}.
C21_EveryWord == gpc = "word_features" => SentinelsAtEnds

\* C21: for every word that holds neither '[' nor ']', get_word_features
\* returns len(word)+2 labels of which only the first ('[') and the last
\* (']') are sentinel labels, every inner position i carrying character i-1
\* of the word's label string, a label in {B,M,E,S}.
C21_SentinelLabels ==
    (gpc = "word_features" /\ \A i \in 1..Len(word) : word[i] \notin {"[", "]"})
        => SentinelsAtEnds

\* The labels of a word of two morphs of one character.
C21_Witness ==
    /\ gpc = "word_features"
    /\ word = <<"a", "b">>
    /\ gold = << <<"a">>, <<"b">> >>
    /\ word_features.labels = <<"[", "S", "S", "]">>

\* The keys the context window yields at position i of the bounded word b.
RightSubstrings(b, i, d) ==
    {SubSeq(b, i + 1, Min(i + j + 1, Len(b))) : j \in 0..(d - 1)}

LeftSubstrings(b, i, d) ==
    {SubSeq(b, i - j, i) : j \in 0..(Min(d, i) - 1)}

\* C22: get_char_features at position i of the bounded word yields exactly
\* one right_ key per substring bounded[i:i+j+1], j in 0..delta-1, truncated
\* at the end of the string and never padded, one left_ key per substring
\* bounded[i-j-1:i], j in 0..min(delta,i)-1 (none at position 0), and the
\* single key pos_start_i, all with value 1.
C22_FeatureSet ==
    gpc = "char_features" =>
        LET b == Bounded(word)
            rights == RightSubstrings(b, position, delta)
            lefts == LeftSubstrings(b, position, delta)
        IN  /\ DOMAIN char_dict =
                  {RightKey(x) : x \in rights} \cup {LeftKey(x) : x \in lefts}
                  \cup {PosKey(position)}
            /\ \A k \in DOMAIN char_dict : char_dict[k] = 1
            /\ \A x \in rights : Len(x) <= Len(b) - position
            /\ Cardinality({k \in DOMAIN char_dict : k[1] = "left_"})
                  = Min(delta, position)
            /\ Cardinality({k \in DOMAIN char_dict : k[1] = "pos_start_"}) = 1

\* The closing sentinel of a two-character word, window 2: the right
\* context is cut at the end of the string.
C22_Witness ==
    /\ gpc = "char_features"
    /\ word = <<"a", "b">>
    /\ position = 3
    /\ delta = 2
    /\ DOMAIN char_dict = {<<"right_", "]">>, <<"left_", "b">>,
                           <<"left_", "a", "b">>, <<"pos_start_", "3">>}

(***************************************************************************)
(* Properties of the labels of a loaded split.                             *)
(***************************************************************************)
\* C27: the label sequence get_features builds for every record of a
\* loaded split is '[' + get_bmes_labels(the record's own morph list) + ']',
\* also when a word occurs more than once in the split with different
\* segmentations.  Stated for splits of non-empty morphs.
C27_PerRecordLabels ==
    ( /\ fpc = "features"
      /\ \A i \in 1..Len(pool) : PlainMorphList(pool[i][2]) ) =>
        /\ raised = "none"
        /\ Len(word_features.labels) = Len(loaded.morphs)
        /\ \A k \in 1..Len(loaded.morphs) :
              word_features.labels[k] =
                 <<"[">> \o get_bmes_labels(loaded.morphs[k]) \o <<"]">>

====
